---------------------------- MODULE Spec2Model ----------------------------
(***************************************************************************)
(* A model of the benchmark execution core of gamedevbench:               *)
(*   - the per-task benchmark cycle of GodotBenchmarkRunner               *)
(*     (_run_benchmark_with_agent: sandbox, solver, validation            *)
(*     directory, result archive, teardown), over a small file system;    *)
(*   - the run controller (run_all_tasks: resume, rate-limit stop,        *)
(*     progress checkpoint, aggregate results).                           *)
(* File names are sequences of characters, so that the name filter of     *)
(* the sandbox (lower-casing, prefix and suffix tests) is computed as     *)
(* the code computes it.  Paths are sequences of names, relative to the   *)
(* root of a directory tree; a tree is a function from paths to entries.  *)
(***************************************************************************)
EXTENDS Integers, Sequences, FiniteSets, TLC

VARIABLES
    \* ---- the benchmark cycle (_run_benchmark_with_agent) ----
    taskFs,          \* the task directory (read-only input)
    pc,              \* position inside _run_benchmark_with_agent
    sandboxExists,   \* the sandbox directory exists on disk
    sandboxFs,       \* its tree
    sandbox_dir,     \* the local variable sandbox_dir is not None
    validationExists,\* the validation directory exists on disk
    validationFs,    \* its tree
    validation_dir,  \* the local variable validation_dir is not None
    archiveExists,   \* a result_subdir under tasks/test_result exists
    archiveFs,       \* its tree
    solver_result,   \* "none", or the SolverResult of the solve step
    validation_result, \* "none", "pass", "fail"
    agentOps,        \* number of edits the agent has made (bounded)
    solverSawFs,     \* history: <<>>, or <<the sandbox tree the solver was started on>>
    outcome,         \* "running", "returned", "raised"
    rmFailed,        \* the set of directories whose rmtree raised
    cwd,             \* the working directory of the process: "original" or "sandbox"
    \* ---- the run controller (run_all_tasks) ----
    cfg,             \* the runner's resume, resume_from and skip_display, and whether a task list file is given
    requires_display,\* the tasks whose manifest has requires_display = true
    all_tasks,       \* what list_tasks() returns (the directory listing)
    task_list,       \* what load_tasks_from_file returns, with a task list file
    checkpoint,      \* the progress checkpoint on disk when the run starts
    results_file,    \* the results file that resume_from names
    rpc,             \* position inside run_all_tasks
    tasks,           \* the local list tasks, once resolved and filtered
    idx,             \* the position of the for loop in tasks (next task)
    completed_tasks, \* the local list completed_tasks
    results,         \* the local list results
    counts,          \* success_count, failure_count, error_count, skipped_count
    rate_limited,    \* the local flag rate_limited
    progress_file,   \* the progress checkpoint on disk
    final_results_file, \* final_results.json on disk
    returned,        \* the aggregate run_all_tasks returned
    called,          \* history: the tasks run_benchmark was called for, in order
    cycled,          \* history: the tasks a benchmark cycle (sandbox, solver, validation) was started for
    flagged,         \* history: a result of this run was flagged rate-limited
    faults,          \* number of save steps that raised (bounded)
    \* ---- ValidationParser.parse_output ----
    output,          \* the engine output handed to parse_output, as its lines
    parsed,          \* <<>>, or <<the ValidationResult parse_output returned>>
    \* ---- the solvers (solve_task) and the runner's solve boundary ----
    solver,          \* the inputs of one solve: the agent, the manifest on disk, the backend's behaviour
    phase,           \* position inside the solve step of the runner
    clock,           \* the time the backend has been running, in ticks
    child,           \* a backend process started by the solver is running
    invoked,         \* history: the backend was invoked
    solved,          \* <<>>, or <<what solve_task returned>>
    bounded,         \* <<>>, or <<the runner's solver_result after the solve boundary>>
    \* ---- SolverFactory, BaseSolver.__init__ and the runner's constructor ----
    registry,        \* SolverFactory._SOLVER_REGISTRY: agent name -> solver class
    OPENHANDS_AVAILABLE, \* the import of openhands_solver succeeded
    last,            \* <<>>, or <<the last call made, with its arguments and its outcome>>
    registrations,   \* number of register_solver calls made (bounded)
    \* ---- token accounting: TokenUsage.calculate_cost and the aggregate's statistics ----
    usage,           \* <<>>, or <<the TokenUsage and the model name handed to calculate_cost>>
    cost,            \* <<>>, or <<the cost calculate_cost returned>>
    tally,           \* the result records handed to _create_final_results_summary
    summary,         \* <<>>, or <<the statistics of the aggregate it returned>>
    \* ---- two-phase validation: validate_task and _validate_in_directory ----
    validation,      \* <<>>, or <<the call and what the two Godot runs and the save will do>>
    vpc,             \* position in the validation: "idle", "start", "warm", "test", "returned"
    commands,        \* the Godot commands run so far, in order
    verdict,         \* <<>>, or <<how the validation ended: a result, or an exception>>
    \* ---- the parallel stages of the pipeline: download, clone, analyze ----
    job,             \* <<>>, or <<the stage and the list its loader read>>
    ppc,             \* position of the stage: "idle", "start", "pool", "done"
    units,           \* the directory of each work unit submitted to the pool, in order
    upc,             \* position of each work unit: "queued", "running", "loaded", "done"
    \* ---- LLMClient.call of the pipeline ----
    llm,             \* <<>>, or <<max_retries and how each backend attempt would end>>
    calls,           \* how the backend attempts made so far ended, in order
    slept,           \* the seconds of each time.sleep so far, in order
    reply,           \* <<>>, or <<how call ended: a response, or an exception>>
    \* ---- extract_task_from_commit of the pipeline ----
    taskDirs,        \* the task directories on disk: task id -> what the directory holds
    extractions      \* the calls of extract_task_from_commit made so far, in order

cycleVars == <<taskFs, pc, sandboxExists, sandboxFs, sandbox_dir,
               validationExists, validationFs, validation_dir,
               archiveExists, archiveFs, solver_result, validation_result,
               agentOps, solverSawFs, outcome, rmFailed, cwd>>
runVars == <<cfg, requires_display, all_tasks, task_list, checkpoint, results_file, rpc, tasks,
             idx, completed_tasks, results, counts, rate_limited, progress_file,
             final_results_file, returned, called, cycled, flagged, faults>>
parserVars == <<output, parsed>>
\* the variables of the units examined on their own
solverVars == <<solver, phase, clock, child, invoked, solved, bounded>>
factoryVars == <<registry, OPENHANDS_AVAILABLE, last, registrations>>
accountVars == <<usage, cost, tally, summary>>
validationVars == <<validation, vpc, commands, verdict>>
pipelineVars == <<job, ppc, units, upc>>
llmVars == <<llm, calls, slept, reply>>
extractVars == <<taskDirs, extractions>>
unitVars ==
    <<parserVars, solverVars, factoryVars, accountVars, validationVars, pipelineVars,
      llmVars, extractVars>>
vars == <<cycleVars, runVars, unitVars>>

-----------------------------------------------------------------------------
(* Bounds of the model *)

\* the most files a task directory holds
MaxTaskFiles == 2
\* the most edits the agent makes to the sandbox during one solve
MaxAgentOps == 1
\* the most tasks in the task directory and in a task list
MaxTasks == 2
\* the most save steps that raise during one run
MaxFaults == 1
\* the most lines of an engine output
MaxLines == 3
\* the longest a backend is watched, in ticks
MaxClock == 3
\* the most register_solver calls
MaxRegistrations == 2
\* the most tokens of one kind a solve uses, in millions
MaxMTokens == 2
\* the most result records of an aggregate whose statistics are examined
MaxRecords == 3

-----------------------------------------------------------------------------
(* File names, as the characters the filter inspects *)

N_test_gd     == <<"t","e","s","t",".","g","d">>
N_test_gd_uid == <<"t","e","s","t",".","g","d",".","u","i","d">>
N_test_tscn   == <<"t","e","s","t",".","t","s","c","n">>
N_TEST_level  == <<"T","E","S","T","_","l",".","t","s","c","n">>
N_task_config == <<"t","a","s","k","_","c","o","n","f","i","g",".","j","s","o","n">>
N_Task_Config == <<"T","a","s","k","_","C","o","n","f","i","g",".","j","s","o","n">>
N_project     == <<"p","r","o","j","e","c","t",".","g","o","d","o","t">>
N_player_gd   == <<"p","l","a","y","e","r",".","g","d">>
N_log         == <<"a","g","e","n","t","_","t","r","a","j","e","c","t","o","r","y",".","l","o","g">>
N_result_json == <<"r","e","s","u","l","t",".","j","s","o","n">>
N_hidden_test == <<".","t","e","s","t",".","g","d",".","h","i","d","d","e","n">>
N_scripts     == <<"s","c","r","i","p","t","s">>
N_scenes      == <<"s","c","e","n","e","s">>
N_levels      == <<"l","e","v","e","l","s">>
N_tests       == <<"t","e","s","t","s">>
N_backup      == <<".","b","a","c","k","u","p">>

\* str.lower() on one character
LowerChar(c) ==
    CASE c = "A" -> "a" [] c = "B" -> "b" [] c = "C" -> "c" [] c = "D" -> "d"
      [] c = "E" -> "e" [] c = "F" -> "f" [] c = "G" -> "g" [] c = "H" -> "h"
      [] c = "I" -> "i" [] c = "J" -> "j" [] c = "K" -> "k" [] c = "L" -> "l"
      [] c = "M" -> "m" [] c = "N" -> "n" [] c = "O" -> "o" [] c = "P" -> "p"
      [] c = "Q" -> "q" [] c = "R" -> "r" [] c = "S" -> "s" [] c = "T" -> "t"
      [] c = "U" -> "u" [] c = "V" -> "v" [] c = "W" -> "w" [] c = "X" -> "x"
      [] c = "Y" -> "y" [] c = "Z" -> "z" [] OTHER -> c

\* str.lower()
Lower(name) == [i \in 1..Len(name) |-> LowerChar(name[i])]

\* str.startswith(prefix)
StartsWith(name, prefix) ==
    /\ Len(name) >= Len(prefix)
    /\ SubSeq(name, 1, Len(prefix)) = prefix

\* str.endswith(suffix)
EndsWith(name, suffix) ==
    /\ Len(name) >= Len(suffix)
    /\ SubSeq(name, Len(name) - Len(suffix) + 1, Len(name)) = suffix

-----------------------------------------------------------------------------
(* Directory trees *)

\* the keys a task manifest may carry
ManifestKeys == {"instruction", "name", "description", "requires_display", "hints"}

\* A directory entry.
DirEntry ==
    [kind |-> "dir", origin |-> "", at |-> <<>>, shape |-> "none",
     keys |-> {}, instr |-> "none"]

\* A file whose bytes are opaque: origin says who wrote them ("task": a
\* file of the task directory, "agent", "runner", "engine"), at says
\* where they were first written.
OpaqueFile(origin, at) ==
    [kind |-> "file", origin |-> origin, at |-> at, shape |-> "opaque",
     keys |-> {}, instr |-> "none"]

\* A manifest of the task directory: shape is "dict" (a JSON object with
\* the given keys), "list" (valid JSON, not an object) or "malformed".
TaskManifest(at, shape, keys) ==
    [kind |-> "file", origin |-> "task", at |-> at, shape |-> shape,
     keys |-> keys,
     instr |-> IF shape = "dict" /\ "instruction" \in keys THEN "src" ELSE "none"]

Parent(p) == SubSeq(p, 1, Len(p) - 1)
BaseName(p) == p[Len(p)]
IsPrefix(p, q) == Len(p) <= Len(q) /\ SubSeq(q, 1, Len(p)) = p
Prefixes(p) == {SubSeq(p, 1, n) : n \in 1..Len(p)}

EmptyFs == [p \in {} |-> DirEntry]

Exists(fs, p) == p \in DOMAIN fs
IsFile(fs, p) == p \in DOMAIN fs /\ fs[p].kind = "file"
IsDir(fs, p) == p = <<>> \/ (p \in DOMAIN fs /\ fs[p].kind = "dir")
Children(fs, d) == {p \in DOMAIN fs : Len(p) = Len(d) + 1 /\ IsPrefix(d, p)}
Restrict(fs, S) == [p \in S \cap DOMAIN fs |-> fs[p]]

\* shutil.rmtree(p), or unlink
RemoveTree(fs, p) == Restrict(fs, {q \in DOMAIN fs : ~IsPrefix(p, q)})

\* write entry e at p, overwriting what is there
Put(fs, p, e) == [q \in DOMAIN fs \cup {p} |-> IF q = p THEN e ELSE fs[q]]

\* f overlaid by g
Overlay(f, g) ==
    [p \in DOMAIN f \cup DOMAIN g |-> IF p \in DOMAIN g THEN g[p] ELSE f[p]]

-----------------------------------------------------------------------------
(* _create_sandbox_environment *)

\* a faulty should_skip_file: the name is not lower-cased
should_skip_file_cased(name) ==
    \/ StartsWith(name, <<"t","e","s","t">>)
    \/ name = N_task_config
    \/ EndsWith(name, <<".","l","o","g">>)
    \/ EndsWith(name, <<".","m","d">>)
    \/ StartsWith(name, <<".">>)

\* should_skip_file(file_path), on file_path.name
should_skip_file(name) ==
    LET lname == Lower(name)
    IN \/ StartsWith(lname, <<"t","e","s","t">>)
       \/ lname = N_task_config
       \/ EndsWith(lname, <<".","l","o","g">>)
       \/ EndsWith(lname, <<".","m","d">>)
       \/ StartsWith(lname, <<".">>)

\* should_skip_directory(dir_path), on dir_path.name
should_skip_directory(name) ==
    LET lname == Lower(name)
    IN \/ StartsWith(lname, <<".">>)
       \/ lname = N_backup

\* copy_directory_filtered(src_dir, dst_dir): the paths of fs that the
\* recursive copy of directory d creates (d itself by mkdir, then each item
\* of d: a file unless should_skip_file, a directory, recursively, unless
\* should_skip_directory).  The top-level loop of
\* _create_sandbox_environment does the same for the items of task_dir.
RECURSIVE copy_directory_filtered(_, _)
copy_directory_filtered(fs, d) ==
    (IF d = <<>> THEN {} ELSE {d}) \cup
    UNION { IF fs[item].kind = "file"
              THEN IF ~should_skip_file(BaseName(item)) THEN {item} ELSE {}
              ELSE IF ~should_skip_directory(BaseName(item))
                     THEN copy_directory_filtered(fs, item)
                     ELSE {}
            : item \in Children(fs, d) }

\* The trees the copy can leave behind when one of its steps raises
\* (mkdir or copy2 fails): the directory d was made, some of its items
\* were copied in full (iterdir gives them in any order), and the item the
\* copy failed on was not copied (a file) or copied in part (a directory).
RECURSIVE partial_copies(_, _)
partial_copies(fs, d) ==
    LET items == {i \in Children(fs, d) :
                    IF fs[i].kind = "file"
                      THEN ~should_skip_file(BaseName(i))
                      ELSE ~should_skip_directory(BaseName(i))}
        full(i) == IF fs[i].kind = "file" THEN {i}
                   ELSE copy_directory_filtered(fs, i)
        self == IF d = <<>> THEN {} ELSE {d}
    IN UNION { { self \cup UNION {full(j) : j \in done} \cup part
                 : done \in SUBSET (items \ {x}),
                   part \in IF fs[x].kind = "file" THEN {{}}
                            ELSE {{}} \cup partial_copies(fs, x) }
               : x \in items }

\* a faulty minimal_config: the whole of full_config is dumped
minimal_config_full(full_config) ==
    [kind |-> "file", origin |-> "runner", at |-> <<N_task_config>>,
     shape |-> "dict", keys |-> full_config.keys \cup {"instruction"},
     instr |-> IF "instruction" \in full_config.keys THEN "src" ELSE "default"]

\* the replacement manifest: {"instruction": full_config.get("instruction",
\* "No instruction provided")}
minimal_config(full_config) ==
    [kind |-> "file", origin |-> "runner", at |-> <<N_task_config>>,
     shape |-> "dict", keys |-> {"instruction"},
     instr |-> IF "instruction" \in full_config.keys THEN "src" ELSE "default"]

\* the manifest step of _create_sandbox_environment on sandbox tree sb:
\* json.load of the source manifest, then json.dump of minimal_config; a
\* malformed manifest or one that is no JSON object raises inside the try,
\* and the except clause only prints a warning.
write_minimal_config(task, sb) ==
    IF IsFile(task, <<N_task_config>>) /\ task[<<N_task_config>>].shape = "dict"
      THEN Put(sb, <<N_task_config>>, minimal_config(task[<<N_task_config>>]))
      ELSE sb

\* the sandbox tree that _create_sandbox_environment returns
create_sandbox_tree_nofilter(task) == write_minimal_config(task, task)
create_sandbox_tree(task) ==
    write_minimal_config(task, Restrict(task, copy_directory_filtered(task, <<>>)))

-----------------------------------------------------------------------------
(* _copy_sandbox_results_to_validation and _save_test_result *)

\* Results of an operation that may raise: the tree it leaves and whether
\* it returned.
Ok(fs) == [ok |-> TRUE, fs |-> fs]
Raised(fs) == [ok |-> FALSE, fs |-> fs]

\* dir.mkdir(parents=True, exist_ok=True) followed by
\* shutil.copy2(src, dir / name), where e is the entry of src.
\* mkdir raises FileExistsError when dir, or an ancestor of it, is a file;
\* copy2 writes INTO dst when dst is an existing directory, and raises when
\* the target inside it is itself a directory.
inject(fs, dir, name, e) ==
    LET dst == Append(dir, name)
        inner == Append(dst, name)
        made == Overlay([d \in Prefixes(dir) |-> DirEntry], fs)
    IN IF \E d \in Prefixes(dir) : IsFile(fs, d)
         THEN Raised(fs)
         ELSE IF IsDir(made, dst)
                THEN IF IsDir(made, inner) THEN Raised(made)
                     ELSE Ok(Put(made, inner, e))
                ELSE Ok(Put(made, dst, e))

\* the second half of _copy_sandbox_results_to_validation: test.gd (and
\* test.gd.uid) and test.tscn are copied from the original task directory
inject_tests(task, val) ==
    LET gd == IF IsFile(task, <<N_scripts, N_test_gd>>)
                THEN inject(val, <<N_scripts>>, N_test_gd, task[<<N_scripts, N_test_gd>>])
                ELSE Ok(val)
        uid == IF gd.ok /\ IsFile(task, <<N_scripts, N_test_gd>>)
                     /\ IsFile(task, <<N_scripts, N_test_gd_uid>>)
                 THEN inject(gd.fs, <<N_scripts>>, N_test_gd_uid,
                             task[<<N_scripts, N_test_gd_uid>>])
                 ELSE gd
    IN IF ~uid.ok THEN uid
       ELSE IF IsFile(task, <<N_scenes, N_test_tscn>>)
              THEN inject(uid.fs, <<N_scenes>>, N_test_tscn, task[<<N_scenes, N_test_tscn>>])
              ELSE uid

\* _copy_sandbox_results_to_validation(sandbox_dir, validation_dir, task_dir)
\* on a fresh validation directory, when no copy fails for lack of
\* resources: everything of the sandbox, then the test files.
copy_sandbox_results_to_validation(sb, task) == inject_tests(task, sb)

\* the names _save_test_result leaves out of its first copy
SaveSkipNames == {N_backup, N_hidden_test, N_log}

\* the tree _save_test_result(validation_dir, ...) writes to result_subdir,
\* and the copy of the sandbox's agent_trajectory.log that follows it
save_test_result(val, sb) ==
    LET kept == {p \in DOMAIN val : p[1] \notin SaveSkipNames}
        copied == Restrict(val, kept)
        withLog == IF IsFile(val, <<N_log>>) THEN Put(copied, <<N_log>>, val[<<N_log>>])
                   ELSE copied
        withJson == Put(withLog, <<N_result_json>>, OpaqueFile("runner", <<N_result_json>>))
    IN IF IsFile(sb, <<N_log>>) THEN Put(withJson, <<N_log>>, sb[<<N_log>>]) ELSE withJson

-----------------------------------------------------------------------------
(* The task directories and the agent's edits the model draws from *)

\* the files a task directory may hold
CandidateFiles ==
    { <<N_task_config>>, <<N_project>>,
      <<N_scripts, N_test_gd>>, <<N_scenes, N_test_tscn>>,
      <<N_scripts, N_player_gd>>,
      <<N_scenes, N_levels, N_TEST_level>>, <<N_scenes, N_levels, N_Task_Config>>,
      <<N_tests, N_player_gd>>, <<N_backup, N_test_gd>> }

\* the root manifests: shape and keys (a manifest that is valid JSON but no
\* object fails in the same except clause as a malformed one)
ManifestVariants ==
    { <<"malformed", {}>>,
      <<"dict", {"instruction"}>>, <<"dict", {"name", "hints"}>>,
      <<"dict", ManifestKeys>> }

IsManifestName(name) == Lower(name) = N_task_config

\* the task directory holding the files F, its root manifest being mv
TaskTree(F, mv) ==
    LET dirs == UNION {Prefixes(Parent(p)) : p \in F}
    IN [p \in F \cup dirs |->
          IF p \in F
            THEN IF p = <<N_task_config>> THEN TaskManifest(p, mv[1], mv[2])
                 ELSE IF IsManifestName(BaseName(p))
                        THEN TaskManifest(p, "dict", ManifestKeys)
                        ELSE OpaqueFile("task", p)
            ELSE DirEntry]

\* the paths the agent edits, and what it does there
AgentWrites == { <<N_scripts, N_test_gd>>, <<N_scenes, N_test_tscn>>,
                 <<N_scripts, N_player_gd>>, <<N_scripts>> }
AgentMkdirs == { <<N_scripts, N_test_gd>>, <<N_scenes, N_test_tscn>> }
AgentRemoves == { <<N_project>> }

\* the agent writes a file of its own at p (replacing what is there)
agent_write(fs, p) ==
    Put(Overlay(RemoveTree(fs, p), [d \in Prefixes(Parent(p)) |-> DirEntry]),
        p, OpaqueFile("agent", p))

\* the agent makes a directory at p (replacing what is there)
agent_mkdir(fs, p) ==
    Overlay(RemoveTree(fs, p), [d \in Prefixes(p) |-> DirEntry])

\* the SolverResult values the run distinguishes
NoSolverResult == [set |-> FALSE, success |-> FALSE, is_rate_limited |-> FALSE]
SolverResults ==
    { [set |-> TRUE, success |-> TRUE, is_rate_limited |-> FALSE],
      [set |-> TRUE, success |-> FALSE, is_rate_limited |-> FALSE],
      [set |-> TRUE, success |-> FALSE, is_rate_limited |-> TRUE] }
\* SolverResult(success=False, message="Error during solving: ...")
ErrorSolverResult == [set |-> TRUE, success |-> FALSE, is_rate_limited |-> FALSE]

-----------------------------------------------------------------------------
(* _run_benchmark_with_agent, one action per step *)

\* no unit is examined on its own
SolverIdle ==
    /\ solver = <<>> /\ phase = "idle" /\ clock = 0 /\ child = FALSE
    /\ invoked = FALSE /\ solved = <<>> /\ bounded = <<>>
ParserIdle == output = <<>> /\ parsed = <<>>
FactoryIdle ==
    registry = <<>> /\ OPENHANDS_AVAILABLE = FALSE /\ last = <<>> /\ registrations = 0
AccountsIdle == usage = <<>> /\ cost = <<>> /\ tally = <<>> /\ summary = <<>>
ValidationIdle == validation = <<>> /\ vpc = "idle" /\ commands = <<>> /\ verdict = <<>>
PipelineIdle == job = <<>> /\ ppc = "idle" /\ units = <<>> /\ upc = <<>>
LlmIdle == llm = <<>> /\ calls = <<>> /\ slept = <<>> /\ reply = <<>>
ExtractIdle == taskDirs = <<>> /\ extractions = <<>>
UnitsIdle ==
    /\ ParserIdle /\ SolverIdle /\ FactoryIdle /\ AccountsIdle /\ ValidationIdle
    /\ PipelineIdle /\ LlmIdle /\ ExtractIdle

\* the run controller is idle while one benchmark cycle is examined
RunIdle ==
    /\ cfg = [resume |-> FALSE, resume_from |-> FALSE, task_list_file |-> FALSE,
              skip_display |-> FALSE]
    /\ requires_display = {}
    /\ all_tasks = <<>> /\ task_list = <<>>
    /\ checkpoint = [state |-> "absent", completed_tasks |-> <<>>, results |-> <<>>]
    /\ results_file = [state |-> "absent", tasks |-> <<>>]
    /\ rpc = "idle" /\ tasks = <<>> /\ idx = 0
    /\ completed_tasks = <<>> /\ results = <<>>
    /\ counts = [success |-> 0, failure |-> 0, error |-> 0, skipped |-> 0]
    /\ rate_limited = FALSE
    /\ progress_file = [state |-> "absent", completed_tasks |-> <<>>, results |-> <<>>]
    /\ final_results_file = <<>> /\ returned = <<>>
    /\ called = <<>> /\ cycled = <<>> /\ flagged = 0 /\ faults = 0

InitCycle ==
    /\ \E F \in SUBSET CandidateFiles :
         /\ Cardinality(F) <= MaxTaskFiles
         /\ \E mv \in ManifestVariants :
              /\ (<<N_task_config>> \notin F => mv = <<"dict", ManifestKeys>>)
              /\ taskFs = TaskTree(F, mv)
    /\ pc = "start"
    /\ sandboxExists = FALSE /\ sandboxFs = EmptyFs /\ sandbox_dir = FALSE
    /\ validationExists = FALSE /\ validationFs = EmptyFs /\ validation_dir = FALSE
    /\ archiveExists = FALSE /\ archiveFs = EmptyFs
    /\ solver_result = NoSolverResult
    /\ validation_result = "none"
    /\ agentOps = 0
    /\ solverSawFs = <<>>
    /\ outcome = "running"
    /\ rmFailed = {}
    /\ cwd = "original"
    /\ RunIdle
    /\ UnitsIdle

\* Step 1: sandbox_dir = self._create_sandbox_environment(task_dir) returns
CreateSandbox ==
    /\ pc = "start"
    /\ sandboxExists' = TRUE
    /\ sandboxFs' = create_sandbox_tree(taskFs)
    /\ sandbox_dir' = TRUE
    /\ pc' = "sandboxed"
    /\ UNCHANGED <<taskFs, validationExists, validationFs, validation_dir,
                   archiveExists, archiveFs, solver_result, validation_result,
                   agentOps, solverSawFs, outcome, rmFailed, cwd, runVars, unitVars>>

\* Step 1: _create_sandbox_environment raises partway (mkdir or copy2
\* fails, or the process is interrupted): the assignment to sandbox_dir in
\* the caller never happens, and control goes to the finally block.
CreateSandboxRaises ==
    /\ pc = "start"
    /\ \/ /\ sandboxExists' = FALSE            \* sandbox_dir.mkdir raised
          /\ sandboxFs' = EmptyFs
       \/ /\ sandboxExists' = TRUE
          /\ \E part \in {{}} \cup partial_copies(taskFs, <<>>) :
                sandboxFs' = Restrict(taskFs, part)
    /\ sandbox_dir' = FALSE
    /\ pc' = "finally"
    /\ outcome' = "raised"
    /\ UNCHANGED <<taskFs, validationExists, validationFs, validation_dir,
                   archiveExists, archiveFs, solver_result, validation_result,
                   agentOps, solverSawFs, rmFailed, cwd, runVars, unitVars>>

\* Step 1.5: the headless editor is run on the sandbox to import assets;
\* a timeout is swallowed.  (The engine's own cache files are not part of
\* the trees of this model.)
LoadAssets ==
    /\ pc = "sandboxed"
    /\ pc' = "ready"
    /\ UNCHANGED <<taskFs, sandboxExists, sandboxFs, sandbox_dir, validationExists,
                   validationFs, validation_dir, archiveExists, archiveFs,
                   solver_result, validation_result, agentOps, solverSawFs,
                   outcome, rmFailed, cwd, runVars, unitVars>>

\* Step 1.5: subprocess.run raises something else than TimeoutExpired
\* (the engine executable is missing)
LoadAssetsRaises ==
    /\ pc = "sandboxed"
    /\ pc' = "finally"
    /\ outcome' = "raised"
    /\ UNCHANGED <<taskFs, sandboxExists, sandboxFs, sandbox_dir, validationExists,
                   validationFs, validation_dir, archiveExists, archiveFs,
                   solver_result, validation_result, agentOps, solverSawFs,
                   rmFailed, cwd, runVars, unitVars>>

\* a faulty solve step without the finally clause
leave_solve_step_unrestored(original_cwd, current) == current

\* the finally clause of the solve step: os.chdir(original_cwd), however
\* the try block was left
leave_solve_step(original_cwd, current) == original_cwd

\* Step 2: os.chdir(sandbox_dir), SolverFactory.create_solver,
\* solver.solve_task() is entered
StartSolver ==
    /\ pc = "ready"
    /\ solverSawFs' = <<sandboxFs>>
    /\ cwd' = "sandbox"
    /\ pc' = "solving"
    /\ UNCHANGED <<taskFs, sandboxExists, sandboxFs, sandbox_dir, validationExists,
                   validationFs, validation_dir, archiveExists, archiveFs,
                   solver_result, validation_result, agentOps, outcome,
                   rmFailed, runVars, unitVars>>

\* the agent, running inside solve_task, edits its working directory
AgentOp ==
    /\ pc = "solving"
    /\ agentOps < MaxAgentOps
    /\ \/ \E p \in AgentWrites : sandboxFs' = agent_write(sandboxFs, p)
       \/ \E p \in AgentMkdirs : sandboxFs' = agent_mkdir(sandboxFs, p)
       \/ \E p \in AgentRemoves : sandboxFs' = RemoveTree(sandboxFs, p)
    /\ agentOps' = agentOps + 1
    /\ UNCHANGED <<taskFs, pc, sandboxExists, sandbox_dir, validationExists,
                   validationFs, validation_dir, archiveExists, archiveFs,
                   solver_result, validation_result, solverSawFs, outcome,
                   rmFailed, cwd, runVars, unitVars>>

\* Step 2: solve_task returns a SolverResult (a timeout is one of the
\* failed results); the solver log is written into the sandbox
SolverReturns ==
    /\ pc = "solving"
    /\ cwd' = leave_solve_step("original", cwd)
    /\ \E r \in SolverResults : solver_result' = r
    /\ sandboxFs' = Put(sandboxFs, <<N_log>>, OpaqueFile("runner", <<N_log>>))
    /\ pc' = "solved"
    /\ UNCHANGED <<taskFs, sandboxExists, sandbox_dir, validationExists,
                   validationFs, validation_dir, archiveExists, archiveFs,
                   validation_result, agentOps, solverSawFs, outcome,
                   rmFailed, runVars, unitVars>>

\* Step 2: create_solver or solve_task raises an Exception; the except
\* clause makes a failed SolverResult of it, and no log is written
SolverRaises ==
    /\ pc \in {"ready", "solving"}
    /\ cwd' = leave_solve_step("original", cwd)
    /\ solver_result' = ErrorSolverResult
    /\ pc' = "solved"
    /\ UNCHANGED <<taskFs, sandboxExists, sandboxFs, sandbox_dir, validationExists,
                   validationFs, validation_dir, archiveExists, archiveFs,
                   validation_result, agentOps, solverSawFs, outcome,
                   rmFailed, runVars, unitVars>>

\* Step 2: the solve step is interrupted (KeyboardInterrupt is no
\* Exception): only the finally clauses run
SolverInterrupted ==
    /\ pc = "solving"
    /\ cwd' = leave_solve_step("original", cwd)
    /\ pc' = "finally"
    /\ outcome' = "raised"
    /\ UNCHANGED <<taskFs, sandboxExists, sandboxFs, sandbox_dir, validationExists,
                   validationFs, validation_dir, archiveExists, archiveFs,
                   solver_result, validation_result, agentOps, solverSawFs,
                   rmFailed, runVars, unitVars>>

\* Step 3: validation_dir is named and made, and
\* _copy_sandbox_results_to_validation returns
AssembleValidation ==
    /\ pc = "solved"
    /\ copy_sandbox_results_to_validation(sandboxFs, taskFs).ok
    /\ validation_dir' = TRUE
    /\ validationExists' = TRUE
    /\ validationFs' = copy_sandbox_results_to_validation(sandboxFs, taskFs).fs
    /\ pc' = "assembled"
    /\ UNCHANGED <<taskFs, sandboxExists, sandboxFs, sandbox_dir, archiveExists,
                   archiveFs, solver_result, validation_result, agentOps,
                   solverSawFs, outcome, rmFailed, cwd, runVars, unitVars>>

\* Step 3 raises: validation_dir.mkdir fails, a copy fails before the test
\* files are reached, or the injection of the test files raises on what the
\* agent left in the way
AssembleValidationRaises ==
    /\ pc = "solved"
    /\ validation_dir' = TRUE
    /\ \/ /\ validationExists' = FALSE
          /\ validationFs' = EmptyFs
       \/ /\ validationExists' = TRUE
          /\ validationFs' = sandboxFs
       \/ /\ ~copy_sandbox_results_to_validation(sandboxFs, taskFs).ok
          /\ validationExists' = TRUE
          /\ validationFs' = copy_sandbox_results_to_validation(sandboxFs, taskFs).fs
    /\ pc' = "finally"
    /\ outcome' = "raised"
    /\ UNCHANGED <<taskFs, sandboxExists, sandboxFs, sandbox_dir, archiveExists,
                   archiveFs, solver_result, validation_result, agentOps,
                   solverSawFs, rmFailed, cwd, runVars, unitVars>>

\* Step 4: _validate_in_directory; it never raises, and fails at once
\* when the validation directory has no project.godot
Validate ==
    /\ pc = "assembled"
    /\ validation_result' \in {"pass", "fail"}
    /\ (~IsFile(validationFs, <<N_project>>) => validation_result' = "fail")
    /\ pc' = "validated"
    /\ UNCHANGED <<taskFs, sandboxExists, sandboxFs, sandbox_dir, validationExists,
                   validationFs, validation_dir, archiveExists, archiveFs,
                   solver_result, agentOps, solverSawFs, outcome, rmFailed, cwd, runVars, unitVars>>

\* Step 5: _save_test_result(validation_dir, ...) and the copy of the
\* solver log into result_subdir
SaveResult ==
    /\ pc = "validated"
    /\ archiveExists' = TRUE
    /\ archiveFs' = save_test_result(validationFs, sandboxFs)
    /\ pc' = "saved"
    /\ UNCHANGED <<taskFs, sandboxExists, sandboxFs, sandbox_dir, validationExists,
                   validationFs, validation_dir, solver_result, validation_result,
                   agentOps, solverSawFs, outcome, rmFailed, cwd, runVars, unitVars>>

\* Step 5 raises (a copy into the result directory fails)
SaveResultRaises ==
    /\ pc = "validated"
    /\ archiveExists' = TRUE
    /\ archiveFs' = EmptyFs
    /\ pc' = "finally"
    /\ outcome' = "raised"
    /\ UNCHANGED <<taskFs, sandboxExists, sandboxFs, sandbox_dir, validationExists,
                   validationFs, validation_dir, solver_result, validation_result,
                   agentOps, solverSawFs, rmFailed, cwd, runVars, unitVars>>

\* the return statement: the result record is built, then the finally
\* block runs
ReturnRecord ==
    /\ pc = "saved"
    /\ pc' = "finally"
    /\ outcome' = "returned"
    /\ UNCHANGED <<taskFs, sandboxExists, sandboxFs, sandbox_dir, validationExists,
                   validationFs, validation_dir, archiveExists, archiveFs,
                   solver_result, validation_result, agentOps, solverSawFs,
                   rmFailed, cwd, runVars, unitVars>>

\* the finally block: each directory is removed when its local variable is
\* set and the directory exists; a failing rmtree is only logged
Cleanup ==
    /\ pc = "finally"
    /\ \E sbFails \in BOOLEAN, valFails \in BOOLEAN :
         LET rmSb == sandbox_dir /\ sandboxExists
             rmVal == validation_dir /\ validationExists
         IN /\ sandboxExists' = (sandboxExists /\ (~rmSb \/ sbFails))
            /\ validationExists' = (validationExists /\ (~rmVal \/ valFails))
            /\ (~rmSb => ~sbFails) /\ (~rmVal => ~valFails)
            /\ rmFailed' = (IF sbFails THEN {"sandbox"} ELSE {})
                             \cup (IF valFails THEN {"validation"} ELSE {})
    /\ sandboxFs' = IF sandboxExists' THEN sandboxFs ELSE EmptyFs
    /\ validationFs' = IF validationExists' THEN validationFs ELSE EmptyFs
    /\ pc' = "done"
    /\ UNCHANGED <<taskFs, sandbox_dir, validation_dir, archiveExists, archiveFs,
                   solver_result, validation_result, agentOps, solverSawFs,
                   outcome, cwd, runVars, unitVars>>

NextCycle ==
    \/ CreateSandbox \/ CreateSandboxRaises
    \/ LoadAssets \/ LoadAssetsRaises
    \/ StartSolver \/ AgentOp \/ SolverReturns \/ SolverRaises \/ SolverInterrupted
    \/ AssembleValidation \/ AssembleValidationRaises
    \/ Validate \/ SaveResult \/ SaveResultRaises \/ ReturnRecord \/ Cleanup

SpecCycle == InitCycle /\ [][NextCycle]_vars

-----------------------------------------------------------------------------
(* Properties of the benchmark cycle *)

\* a name the agent must not see: it starts with "test", whatever the
\* case of its letters, or it is the manifest's
ForbiddenName(name) ==
    \/ StartsWith(Lower(name), <<"t","e","s","t">>)
    \/ name = N_task_config

\* the files of tree fs that are files of the task directory
TaskFilesIn(fs) == {p \in DOMAIN fs : fs[p].kind = "file" /\ fs[p].origin = "task"}

\* C1 (sandbox exclusion): once _create_sandbox_environment has returned,
\* the sandbox holds, at no depth, a file of the task directory whose name
\* starts with "test" (case-insensitively) or is task_config.json; the only
\* file of such a name in the sandbox it returns is the replacement
\* manifest the runner wrote at the root.
SandboxExclusion ==
    /\ \A p \in TaskFilesIn(sandboxFs) : ~ForbiddenName(BaseName(p))
    /\ pc \in {"sandboxed", "ready"} =>
         \A p \in DOMAIN sandboxFs :
            (sandboxFs[p].kind = "file" /\ ForbiddenName(BaseName(p)))
               => (p = <<N_task_config>> /\ sandboxFs[p].origin = "runner")

\* a sandbox was returned for a task with forbidden files at depth 2 and 3,
\* and something else of the task was copied
SandboxExclusionWitness ==
    /\ pc = "sandboxed"
    /\ IsFile(taskFs, <<N_scenes, N_levels, N_TEST_level>>)
    /\ IsFile(taskFs, <<N_tests, N_player_gd>>)
    /\ IsFile(sandboxFs, <<N_tests, N_player_gd>>)
    /\ IsDir(sandboxFs, <<N_scenes, N_levels>>)

ValidationInjection ==
    pc = "assembled" =>
       \A p \in {<<N_scripts, N_test_gd>>, <<N_scenes, N_test_tscn>>} :
          IsFile(taskFs, p) => (Exists(validationFs, p) /\ validationFs[p] = taskFs[p])

\* the entries of the task directory that the blacklist lets through: no
\* directory on the way is hidden, and a file's own name is not excluded
KeptByFilter(task, p) ==
    /\ \A q \in Prefixes(p) :
          task[q].kind = "dir" => ~StartsWith(BaseName(q), <<".">>)
    /\ task[p].kind = "file" =>
          LET n == Lower(BaseName(p))
          IN /\ ~ForbiddenName(n)
             /\ ~EndsWith(n, <<".","l","o","g">>) /\ ~EndsWith(n, <<".","m","d">>)
             /\ ~StartsWith(n, <<".">>)

\* the filtered copy of the task directory is all there in sb
CopyComplete(task, sb) ==
    \A p \in DOMAIN task :
       KeptByFilter(task, p) => (Exists(sb, p) /\ sb[p] = task[p])

\* sb holds the replacement manifest
ReplacementWritten(sb) ==
    /\ IsFile(sb, <<N_task_config>>)
    /\ sb[<<N_task_config>>].origin = "runner"
    /\ sb[<<N_task_config>>].keys = {"instruction"}

\* tree fs holds a held-out file of the task: a test file or a manifest
HoldsOracle(fs) ==
    \E p \in TaskFilesIn(fs) : ForbiddenName(Lower(BaseName(p))) \/ fs[p].shape # "opaque"

\* no solver is started on a sandbox whose construction raised, and while
\* the solver runs the sandbox holds no test file and no full manifest
NoPartialNoOracle ==
    /\ solverSawFs # <<>> => sandbox_dir
    /\ (~sandbox_dir /\ pc \in {"finally", "done"}) => solverSawFs = <<>>
    /\ solverSawFs # <<>> => ~HoldsOracle(solverSawFs[1])
    /\ pc = "solving" => ~HoldsOracle(sandboxFs)

HoldsTests(fs) ==
    \E p \in TaskFilesIn(fs) : BaseName(p) \in {N_test_gd, N_test_tscn}

\* tree fs holds what the agent left behind after solving
HoldsSolution(fs) == \E p \in DOMAIN fs : fs[p].origin = "agent"

\* C5, as claimed: once the benchmark cycle has finished, no directory the
\* runner wrote holds both the test files and the agent's solution.
NoCoexistenceAfterCycle ==
    pc = "done" =>
       /\ ~(sandboxExists /\ HoldsTests(sandboxFs) /\ HoldsSolution(sandboxFs))
       /\ ~(validationExists /\ "validation" \notin rmFailed
              /\ HoldsTests(validationFs) /\ HoldsSolution(validationFs))
       /\ ~(archiveExists /\ HoldsTests(archiveFs) /\ HoldsSolution(archiveFs))

\* C6, as claimed: when _run_benchmark_with_agent has returned or raised,
\* the sandbox and the validation directory of the attempt are gone,
\* unless their removal itself failed.
GuaranteedTeardown ==
    pc = "done" =>
       /\ sandboxExists => "sandbox" \in rmFailed
       /\ validationExists => "validation" \in rmFailed

\* the cycle is over, and a filesystem error stopped the construction of
\* the sandbox (sandbox_dir was never assigned) or the assembly of the
\* validation directory (it was named, and no validation was run)
FilesystemErrorInCycle ==
    /\ pc = "done"
    /\ \/ ~sandbox_dir
       \/ validation_dir /\ validation_result = "none"

\* C25: a filesystem error during sandbox construction or validation
\* directory assembly is caught inside the benchmark cycle, which returns a
\* failed record for the task instead of raising
FilesystemErrorsContained ==
    FilesystemErrorInCycle => outcome = "returned"

-----------------------------------------------------------------------------
(* The run controller: records, checkpoint, aggregate *)

Range(seq) == {seq[i] : i \in 1..Len(seq)}

\* [x for x in seq if x not in excluded]
Without(seq, excluded) == SelectSeq(seq, LAMBDA x : x \notin excluded)

\* sum(1 for r in results if r.get(flag, False))
CountSuccess(rs) == Cardinality({i \in 1..Len(rs) : rs[i].success})
CountSkipped(rs) == Cardinality({i \in 1..Len(rs) : rs[i].skipped})

\* A result record.  has_solver: the record carries the solver's keys
\* (solver_success, is_rate_limited), as the records of
\* _run_benchmark_with_agent do; stamp: 0 for a record of an earlier run,
\* 1 for a record of this run (its timestamp).
Record(task, success, skipped, has_solver, solver_success, rl, error, stamp) ==
    [task_name |-> task, success |-> success, skipped |-> skipped,
     has_solver |-> has_solver, solver_success |-> solver_success,
     is_rate_limited |-> rl, error |-> error, stamp |-> stamp]

\* a faulty record whose success needs the solver's success as well
benchmark_record_both(task, vr, sr) ==
    Record(task, vr = "pass" /\ sr.success, FALSE, TRUE, sr.success, sr.is_rate_limited,
           FALSE, 1)

\* the record _run_benchmark_with_agent returns: success is the
\* validation's, solver_success and is_rate_limited are the solver's
benchmark_record(task, vr, sr) ==
    Record(task, vr = "pass", FALSE, TRUE, sr.success, sr.is_rate_limited, FALSE, 1)

\* the record run_benchmark returns for a task skipped for its display
skipped_record(task) == Record(task, FALSE, TRUE, FALSE, FALSE, FALSE, FALSE, 1)

\* the record the except clause of run_all_tasks appends
error_record(task) == Record(task, FALSE, FALSE, FALSE, FALSE, FALSE, TRUE, 1)

\* the records a benchmark cycle of the task may return
RunOutcomes(task) ==
    { benchmark_record(task, vr, sr) : vr \in {"pass", "fail"}, sr \in SolverResults }

\* a faulty run_benchmark that gives up a task as soon as its solver result
\* is flagged rate-limited: the record has the flag and no validation
run_benchmark_aborting(task, skip_display, display_tasks) ==
    IF skip_display /\ task \in display_tasks
      THEN { [raises |-> FALSE, cycle |-> FALSE, record |-> skipped_record(task)] }
      ELSE { [raises |-> FALSE, cycle |-> TRUE,
              record |-> IF r.is_rate_limited
                           THEN Record(task, FALSE, FALSE, TRUE, FALSE, TRUE, TRUE, 1)
                           ELSE r] : r \in RunOutcomes(task) }
             \cup { [raises |-> TRUE, cycle |-> TRUE, record |-> error_record(task)] }

\* a faulty run_benchmark that does not look at skip_display
run_benchmark_noskip(task, skip_display, display_tasks) ==
    { [raises |-> FALSE, cycle |-> TRUE, record |-> r] : r \in RunOutcomes(task) }
      \cup { [raises |-> TRUE, cycle |-> TRUE, record |-> error_record(task)] }

\* run_benchmark(task): with skip_display, a task whose manifest has
\* requires_display is answered with the skipped record before anything
\* else is done; otherwise the benchmark cycle runs and returns a record or
\* raises.  cycle: the cycle was started; record: what is returned (when
\* raises, the record the caller will make of it).
run_benchmark(task, skip_display, display_tasks) ==
    IF skip_display /\ task \in display_tasks
      THEN { [raises |-> FALSE, cycle |-> FALSE, record |-> skipped_record(task)] }
      ELSE { [raises |-> FALSE, cycle |-> TRUE, record |-> r] : r \in RunOutcomes(task) }
             \cup { [raises |-> TRUE, cycle |-> TRUE, record |-> error_record(task)] }

\* a record of an earlier run: an odd task passed validation, an even one
\* failed it; ss is its solver_success
PriorRecord(task, ss) ==
    Record(task, task % 2 = 1, FALSE, TRUE, ss, FALSE, FALSE, 0)

\* a record of an earlier run for a task it skipped for its display
PriorSkipped(task) == Record(task, FALSE, TRUE, FALSE, FALSE, FALSE, FALSE, 0)

\* the progress checkpoint: completed_tasks and results
NoProgress == [state |-> "absent", completed_tasks |-> <<>>, results |-> <<>>]
CorruptProgress == [state |-> "corrupt", completed_tasks |-> <<>>, results |-> <<>>]
Progress(completed, rs) == [state |-> "ok", completed_tasks |-> completed, results |-> rs]

\* a faulty _load_progress that forgets the completed list
load_progress_forgetful(pf) ==
    IF pf.state = "ok"
      THEN [completed_tasks |-> <<>>, results |-> pf.results]
      ELSE [completed_tasks |-> <<>>, results |-> <<>>]

\* _load_progress: a missing or unreadable file gives two empty lists
load_progress(pf) ==
    IF pf.state = "ok"
      THEN [completed_tasks |-> pf.completed_tasks, results |-> pf.results]
      ELSE [completed_tasks |-> <<>>, results |-> <<>>]

\* the results file of resume_from: its "tasks" list
NoResultsFile == [state |-> "absent", tasks |-> <<>>]
ResultsFile(rs) == [state |-> "ok", tasks |-> rs]

\* a faulty _load_results_from_file that skips every task of the file
load_results_from_file_all(rf) ==
    IF rf.state = "ok"
      THEN [tasks_to_skip |-> [i \in 1..Len(rf.tasks) |-> rf.tasks[i].task_name],
            tasks_to_redo |-> <<>>,
            previous_results |-> rf.tasks]
      ELSE [tasks_to_skip |-> <<>>, tasks_to_redo |-> <<>>, previous_results |-> <<>>]

\* a faulty _load_results_from_file that keeps every record of the file as a
\* previous result
load_results_from_file_keeping(rf) ==
    IF rf.state = "ok"
      THEN LET skip == SelectSeq(rf.tasks, LAMBDA r : r.solver_success)
               redo == SelectSeq(rf.tasks, LAMBDA r : ~r.solver_success)
           IN [tasks_to_skip |-> [i \in 1..Len(skip) |-> skip[i].task_name],
               tasks_to_redo |-> [i \in 1..Len(redo) |-> redo[i].task_name],
               previous_results |-> rf.tasks]
      ELSE [tasks_to_skip |-> <<>>, tasks_to_redo |-> <<>>, previous_results |-> <<>>]

\* _load_results_from_file: tasks_to_skip, tasks_to_redo, previous_results
load_results_from_file(rf) ==
    IF rf.state = "ok"
      THEN LET skip == SelectSeq(rf.tasks, LAMBDA r : r.solver_success)
               redo == SelectSeq(rf.tasks, LAMBDA r : ~r.solver_success)
           IN [tasks_to_skip |-> [i \in 1..Len(skip) |-> skip[i].task_name],
               tasks_to_redo |-> [i \in 1..Len(redo) |-> redo[i].task_name],
               previous_results |-> skip]
      ELSE [tasks_to_skip |-> <<>>, tasks_to_redo |-> <<>>, previous_results |-> <<>>]

\* round(success_count / tasks_attempted * 100, 2), in hundredths of a percent
SuccessRate(success_count, tasks_attempted) ==
    IF tasks_attempted > 0
      THEN (2 * 10000 * success_count + tasks_attempted) \div (2 * tasks_attempted)
      ELSE 0

\* _create_final_results_summary (the counters, the rate and the records;
\* the aggregate has no rate-limit keys yet)
create_final_results_summary(c, total_tasks, rs) ==
    [success |-> c.success, failures |-> c.failure, errors |-> c.error,
     skipped |-> c.skipped, total_tasks_ran |-> total_tasks,
     tasks_attempted |-> total_tasks - c.skipped,
     task_success_rate |-> SuccessRate(c.success, total_tasks - c.skipped),
     tasks |-> rs,
     has_rate_limited |-> FALSE, rate_limited |-> FALSE,
     incomplete |-> FALSE, has_remaining |-> FALSE, remaining_tasks |-> 0]

\* the rate-limit keys added to an aggregate: rate_limited, and with it
\* incomplete and remaining_tasks = len(self.list_tasks()) - done
with_rate_limit(agg, rl, listing, done) ==
    [agg EXCEPT !.has_rate_limited = TRUE, !.rate_limited = rl,
                !.incomplete = rl, !.has_remaining = rl,
                !.remaining_tasks = IF rl THEN Len(listing) - done ELSE 0]

\* the aggregate _save_final_results writes
save_final_results(c, rs, rl, listing) ==
    with_rate_limit(create_final_results_summary(c, Len(rs), rs), rl, listing, Len(rs))

-----------------------------------------------------------------------------
(* run_all_tasks, one action per step *)

\* no benchmark cycle is examined while the run controller is
CycleIdle ==
    /\ taskFs = EmptyFs /\ pc = "idle"
    /\ sandboxExists = FALSE /\ sandboxFs = EmptyFs /\ sandbox_dir = FALSE
    /\ validationExists = FALSE /\ validationFs = EmptyFs /\ validation_dir = FALSE
    /\ archiveExists = FALSE /\ archiveFs = EmptyFs
    /\ solver_result = NoSolverResult /\ validation_result = "none"
    /\ agentOps = 0 /\ solverSawFs = <<>> /\ outcome = "running" /\ rmFailed = {}
    /\ cwd = "original"

\* the task names 1..n, in the sorted order of list_tasks
Ids(n) == [i \in 1..n |-> i]

\* the elements of S in increasing order
SortedSeq(S) ==
    CHOOSE s \in [1..Cardinality(S) -> S] :
        \A i, j \in 1..Cardinality(S) : i < j => s[i] < s[j]

\* the progress files an earlier run may have left
Checkpoints ==
    {NoProgress, CorruptProgress}
      \cup UNION { { Progress(SortedSeq(C), [i \in 1..Cardinality(C) |->
                         IF sk /\ SortedSeq(C)[i] % 2 = 0
                           THEN PriorSkipped(SortedSeq(C)[i])
                           ELSE PriorRecord(SortedSeq(C)[i], SortedSeq(C)[i] % 2 = 1)])
                      : sk \in BOOLEAN }
                    : C \in SUBSET (1..MaxTasks) }

\* the results files resume_from may name: one record for each task of a
\* set, each with its own solver_success
ResultsFiles ==
    {NoResultsFile}
      \cup UNION { { ResultsFile([i \in 1..Cardinality(S) |->
                                    PriorRecord(SortedSeq(S)[i], ss[SortedSeq(S)[i]])])
                     : ss \in [S -> BOOLEAN] }
                   : S \in SUBSET (1..MaxTasks) }

InitRun ==
    /\ CycleIdle
    /\ UnitsIdle
    /\ \E rs \in BOOLEAN, rf \in BOOLEAN, lf \in BOOLEAN, sd \in BOOLEAN :
         /\ cfg = [resume |-> rs, resume_from |-> rf, task_list_file |-> lf,
                   skip_display |-> sd]
         /\ IF sd THEN requires_display \in SUBSET (1..MaxTasks)
                  ELSE requires_display \in {{}, 1..MaxTasks}
         /\ IF lf
              THEN /\ all_tasks = Ids(MaxTasks)
                   /\ \E m \in 0..MaxTasks : task_list = Ids(m)
              ELSE /\ \E n \in 0..MaxTasks : all_tasks = Ids(n)
                   /\ task_list = <<>>
         /\ IF rs
              THEN IF rf THEN checkpoint = Progress(Ids(MaxTasks),
                                    [i \in 1..MaxTasks |-> PriorRecord(i, i % 2 = 1)])
                         ELSE checkpoint \in Checkpoints
              ELSE checkpoint = NoProgress
         /\ IF rf THEN results_file \in ResultsFiles
                  ELSE results_file = NoResultsFile
    /\ progress_file = checkpoint
    /\ rpc = "start" /\ tasks = <<>> /\ idx = 0
    /\ completed_tasks = <<>> /\ results = <<>>
    /\ counts = [success |-> 0, failure |-> 0, error |-> 0, skipped |-> 0]
    /\ rate_limited = FALSE
    /\ final_results_file = <<>> /\ returned = <<>>
    /\ called = <<>> /\ cycled = <<>> /\ flagged = 0 /\ faults = 0

\* a faulty choice of the lists the run starts from: with both resume and
\* resume_from the checkpoint's tasks are skipped as well
initial_lists_combined(c, loadedF, loadedP) ==
    IF c.resume_from /\ c.resume
      THEN [completed_tasks |-> loadedF.tasks_to_skip \o loadedP.completed_tasks,
            results |-> loadedF.previous_results \o loadedP.results]
    ELSE IF c.resume_from
      THEN [completed_tasks |-> loadedF.tasks_to_skip, results |-> loadedF.previous_results]
    ELSE IF c.resume
      THEN [completed_tasks |-> loadedP.completed_tasks, results |-> loadedP.results]
    ELSE [completed_tasks |-> <<>>, results |-> <<>>]

\* the lists completed_tasks and results the run starts from:
\* if self.resume_from: ... elif self.resume: ...
initial_lists(c, loadedF, loadedP) ==
    IF c.resume_from
      THEN [completed_tasks |-> loadedF.tasks_to_skip, results |-> loadedF.previous_results]
    ELSE IF c.resume
      THEN [completed_tasks |-> loadedP.completed_tasks, results |-> loadedP.results]
    ELSE [completed_tasks |-> <<>>, results |-> <<>>]

\* the task list of the run: the list file's, or the directory listing
OwnTaskList == IF cfg.task_list_file THEN task_list ELSE all_tasks

\* the aggregate of the early returns:  failure_count is
\* len(results) - success_count - skipped_count_existing
existing_results_summary(rs) ==
    create_final_results_summary(
        [success |-> CountSuccess(rs),
         failure |-> Len(rs) - CountSuccess(rs) - CountSkipped(rs),
         error |-> 0, skipped |-> CountSkipped(rs)], Len(rs), rs)

\* run_all_tasks up to the loop: the task list, the resume strategy, the
\* counters; or an early return
StartRun ==
    /\ rpc = "start"
    /\ LET loadedF == load_results_from_file(results_file)
           loadedP == load_progress(progress_file)
           lists0 == initial_lists(cfg, loadedF, loadedP)
           completed0 == lists0.completed_tasks
           results0 == lists0.results
           tasks0 == IF cfg.resume_from \/ (cfg.resume /\ completed0 # <<>>)
                       THEN Without(OwnTaskList, Range(completed0))
                       ELSE OwnTaskList
       IN IF OwnTaskList = <<>>
            THEN /\ returned' = <<create_final_results_summary(
                                    [success |-> 0, failure |-> 0, error |-> 0,
                                     skipped |-> 0], 0, <<>>)>>
                 /\ rpc' = "done"
                 /\ UNCHANGED <<tasks, idx, completed_tasks, results, counts>>
            ELSE IF tasks0 = <<>>
            THEN /\ returned' = <<existing_results_summary(results0)>>
                 /\ rpc' = "done"
                 /\ tasks' = tasks0 /\ completed_tasks' = completed0
                 /\ results' = results0
                 /\ UNCHANGED <<idx, counts>>
            ELSE /\ tasks' = tasks0 /\ completed_tasks' = completed0
                 /\ results' = results0
                 /\ counts' = [success |-> CountSuccess(results0),
                               failure |-> Len(results0) - CountSuccess(results0),
                               error |-> 0, skipped |-> 0]
                 /\ idx' = 1 /\ rpc' = "loop"
                 /\ UNCHANGED returned
    /\ UNCHANGED <<cfg, requires_display, all_tasks, task_list, checkpoint, results_file, rate_limited,
                   progress_file, final_results_file, called, cycled, flagged, faults,
                   cycleVars, unitVars>>

\* a faulty count in which a skipped record is a failure as well
count_result_twice(c, r) ==
    IF r.skipped THEN [c EXCEPT !.skipped = @ + 1, !.failure = @ + 1]
    ELSE IF r.success THEN [c EXCEPT !.success = @ + 1]
    ELSE [c EXCEPT !.failure = @ + 1]

\* the counters after a returned record
count_result(c, r) ==
    IF r.skipped THEN [c EXCEPT !.skipped = @ + 1]
    ELSE IF r.success THEN [c EXCEPT !.success = @ + 1]
    ELSE [c EXCEPT !.failure = @ + 1]

\* a faulty except clause: the error record is appended and the loop goes
\* on, but nothing is saved
except_clause_unsaved(task_name, comp, rs, c, rl, pf, used) ==
    /\ results' = Append(rs, error_record(task_name))
    /\ completed_tasks' = Append(comp, task_name)
    /\ counts' = [c EXCEPT !.error = @ + 1]
    /\ rate_limited' = rl
    /\ progress_file' = pf
    /\ final_results_file' = final_results_file
    /\ rpc' = "loop" /\ idx' = idx + 1
    /\ faults' = used

\* a faulty except clause that leaves the loop after the error record
except_clause_stops(task_name, comp, rs, c, rl, pf, used) ==
    /\ results' = Append(rs, error_record(task_name))
    /\ completed_tasks' = Append(comp, task_name)
    /\ counts' = [c EXCEPT !.error = @ + 1]
    /\ rate_limited' = rl
    /\ progress_file' = Progress(completed_tasks', results')
    /\ final_results_file' = <<save_final_results(counts', results', rl, all_tasks)>>
    /\ rpc' = "break" /\ idx' = idx
    /\ faults' = used

\* the except clause of the loop body: an error record is appended, both
\* saves are repeated, and the loop goes on; a save that raises here ends
\* run_all_tasks with the exception.  pf is the progress file as the try
\* block left it, used is the number of failed saves so far.
except_clause(task_name, comp, rs, c, rl, pf, used) ==
    /\ results' = Append(rs, error_record(task_name))
    /\ completed_tasks' = Append(comp, task_name)
    /\ counts' = [c EXCEPT !.error = @ + 1]
    /\ rate_limited' = rl
    /\ \/ /\ progress_file' = Progress(completed_tasks', results')
          /\ final_results_file' = <<save_final_results(counts', results', rl, all_tasks)>>
          /\ rpc' = "loop" /\ idx' = idx + 1
          /\ faults' = used
       \/ /\ used < MaxFaults
          /\ progress_file' \in {pf, CorruptProgress}
          /\ final_results_file' = final_results_file
          /\ rpc' = "raised" /\ idx' = idx
          /\ faults' = used + 1
       \/ /\ used < MaxFaults
          /\ progress_file' = Progress(completed_tasks', results')
          /\ final_results_file' = final_results_file
          /\ rpc' = "raised" /\ idx' = idx
          /\ faults' = used + 1

\* one iteration of the loop over the tasks
RunTask ==
    /\ rpc = "loop" /\ idx <= Len(tasks)
    /\ LET task_name == tasks[idx] IN
       /\ called' = Append(called, task_name)
       /\ \E o \in run_benchmark(task_name, cfg.skip_display, requires_display) :
            /\ cycled' = IF o.cycle THEN Append(cycled, task_name) ELSE cycled
            /\ IF o.raises
                 THEN /\ flagged' = flagged
                      /\ except_clause(task_name, completed_tasks, results, counts,
                                       rate_limited, progress_file, faults)
                 ELSE \E fault \in {"none", "_save_progress", "_save_final_results"} :
                        LET r == o.record
                            results1 == Append(results, r)
                            completed1 == Append(completed_tasks, task_name)
                            counts1 == count_result(counts, r)
                            rl1 == IF r.has_solver THEN r.is_rate_limited ELSE rate_limited
                        IN /\ flagged' = IF flagged = 0 /\ r.has_solver /\ r.is_rate_limited
                                           THEN Len(called') ELSE flagged
                           /\ IF fault = "none"
                                THEN /\ results' = results1
                                     /\ completed_tasks' = completed1
                                     /\ counts' = counts1
                                     /\ rate_limited' = rl1
                                     /\ progress_file' = Progress(completed1, results1)
                                     /\ final_results_file' =
                                          <<save_final_results(counts1, results1, rl1, all_tasks)>>
                                     /\ IF rl1 THEN rpc' = "break" /\ idx' = idx
                                               ELSE rpc' = "loop" /\ idx' = idx + 1
                                     /\ faults' = faults
                                ELSE /\ faults < MaxFaults
                                     /\ except_clause(task_name, completed1, results1, counts1,
                                          rl1,
                                          IF fault = "_save_progress" THEN progress_file
                                          ELSE Progress(completed1, results1),
                                          faults + 1)
    /\ UNCHANGED <<cfg, requires_display, all_tasks, task_list, checkpoint, results_file,
                   tasks, returned, cycleVars, unitVars>>

\* after the loop: the final aggregate is written and returned, and the
\* progress file is cleared unless the run was rate limited
FinishRun ==
    /\ \/ rpc = "loop" /\ idx > Len(tasks)
       \/ rpc = "break"
    /\ LET final_results ==
             with_rate_limit(create_final_results_summary(counts, Len(results), results),
                             rate_limited, all_tasks, Len(completed_tasks))
       IN /\ final_results_file' = <<final_results>>
          /\ returned' = <<final_results>>
    /\ progress_file' = IF ~rate_limited THEN NoProgress ELSE progress_file
    /\ rpc' = "done"
    /\ UNCHANGED <<cfg, requires_display, all_tasks, task_list, checkpoint, results_file, tasks, idx,
                   completed_tasks, results, counts, rate_limited, called, cycled,
                   flagged, faults, cycleVars, unitVars>>

\* the process dies inside an iteration of the loop: while run_benchmark
\* runs, while _save_progress rewrites the checkpoint (open(..., "w") has
\* truncated it and json.dump has not finished), or after the checkpoint
\* was written.  What is on disk stays; the in-memory lists are those of
\* the last loop head.
Crash ==
    /\ rpc = "loop" /\ idx <= Len(tasks)
    /\ called' = Append(called, tasks[idx])
    /\ \E o \in run_benchmark(tasks[idx], cfg.skip_display, requires_display) :
         /\ cycled' = IF o.cycle THEN Append(cycled, tasks[idx]) ELSE cycled
         /\ \/ progress_file' = progress_file
            \/ ~o.raises /\ progress_file' = CorruptProgress
            \/ /\ ~o.raises
               /\ progress_file' = Progress(Append(completed_tasks, tasks[idx]),
                                            Append(results, o.record))
    /\ rpc' = "crashed"
    /\ UNCHANGED <<cfg, requires_display, all_tasks, task_list, checkpoint, results_file,
                   tasks, idx, completed_tasks, results, counts, rate_limited,
                   final_results_file, returned, flagged, faults, cycleVars, unitVars>>

NextRun == StartRun \/ RunTask \/ FinishRun \/ Crash

SpecRun == InitRun /\ [][NextRun]_vars

-----------------------------------------------------------------------------
(* The working directory of the process *)

\* C38: after the solve step the working directory of the process is the
\* one it had before, whether the solver returned, failed, raised or was
\* interrupted; it is restored before the finally block removes the
\* sandbox, so the process is never inside a removed sandbox
WorkingDirectoryFrame ==
    /\ pc \notin {"solving"} => cwd = "original"
    /\ cwd = "sandbox" => sandboxExists

\* the solver raised inside the sandbox, and the cycle has ended with the
\* sandbox removed and the process in its original directory
WorkingDirectoryFrameWitness ==
    /\ pc = "done" /\ solverSawFs # <<>> /\ solver_result = ErrorSolverResult
    /\ sandbox_dir /\ ~sandboxExists /\ cwd = "original"

-----------------------------------------------------------------------------
(* The record of a benchmark cycle *)

\* the record the return statement of _run_benchmark_with_agent builds from
\* the validation result and the solver result of the cycle
task_record == benchmark_record(1, validation_result, solver_result)

\* C37: validation follows solving whatever the solver outcome: the solve
\* step always leaves a solver result, a record is returned only after
\* validation has run, and in the record success is the validation result
\* alone while solver_success and is_rate_limited are the solver's
ValidationFollowsSolving ==
    /\ pc \in {"solved", "assembled", "validated", "saved"} => solver_result.set
    /\ pc \in {"validated", "saved"} => validation_result \in {"pass", "fail"}
    /\ outcome = "returned"
          => /\ validation_result \in {"pass", "fail"}
             /\ task_record.success = (validation_result = "pass")
             /\ task_record.solver_success = solver_result.success
             /\ task_record.is_rate_limited = solver_result.is_rate_limited

\* a cycle whose solver failed on a rate limit has returned a record with
\* success = true, from a validation that passed
ValidationFollowsSolvingWitness ==
    /\ outcome = "returned" /\ pc = "done"
    /\ solver_result.is_rate_limited /\ ~solver_result.success
    /\ validation_result = "pass" /\ task_record.success

-----------------------------------------------------------------------------
(* Properties of the run controller *)

IsPrefixSeq(a, b) == Len(a) <= Len(b) /\ \A i \in 1..Len(a) : a[i] = b[i]

\* C33: in every progress checkpoint on disk that can be read,
\* completed_tasks and results have the same length and completed_tasks[i]
\* is the task_name of results[i], in fresh runs, in runs resumed from a
\* checkpoint and in runs resumed from a results file
CheckpointConsistency ==
    progress_file.state = "ok"
      => /\ Len(progress_file.completed_tasks) = Len(progress_file.results)
         /\ \A i \in 1..Len(progress_file.completed_tasks) :
                progress_file.completed_tasks[i] = progress_file.results[i].task_name

\* a run resumed from a results file has written a checkpoint that holds a
\* record of the file and a record of its own
CheckpointConsistencyWitness ==
    /\ cfg.resume_from /\ ~cfg.resume
    /\ load_results_from_file(results_file).tasks_to_skip # <<>>
    /\ load_results_from_file(results_file).tasks_to_redo # <<>>
    /\ progress_file.state = "ok"
    /\ Len(progress_file.completed_tasks) > Len(load_results_from_file(results_file).tasks_to_skip)

\* the aggregates of the run: the one persisted and the one returned
Aggregates == Range(final_results_file) \cup Range(returned)

\* the number of places of a sequence that satisfy a test
Occurrences(seq, Test(_)) == Cardinality({i \in 1..Len(seq) : Test(seq[i])})

\* a fresh run is at the head of the loop, or past it: every task called
\* has been processed
FreshRunBetweenTasks ==
    /\ ~cfg.resume /\ ~cfg.resume_from
    /\ rpc \in {"loop", "break", "done"} /\ tasks # <<>>

\* C35: in a run over a task list of distinct names every task processed has
\* exactly one record in results and occurs exactly once in completed_tasks,
\* whichever step of the loop body raised
OneRecordPerTask ==
    FreshRunBetweenTasks
      => \A t \in Range(called) :
            /\ Occurrences(results, LAMBDA r : r.task_name = t) = 1
            /\ Occurrences(completed_tasks, LAMBDA n : n = t) = 1

\* C34: in every aggregate that run_all_tasks persists or returns, success +
\* failures + errors + skipped equals total_tasks_ran, which equals the
\* number of records in tasks
CounterInvariant ==
    \A a \in Aggregates :
        /\ a.success + a.failures + a.errors + a.skipped = a.total_tasks_ran
        /\ a.total_tasks_ran = Len(a.tasks)

\* the persisted aggregate of a run resumed from a checkpoint counts a
\* record of the checkpoint, a skipped task and an error
CounterInvariantWitness ==
    /\ cfg.resume /\ ~cfg.resume_from /\ checkpoint.state = "ok"
    /\ checkpoint.results # <<>>
    /\ \E a \in Range(final_results_file) :
          a.skipped > 0 /\ a.errors > 0 /\ a.total_tasks_ran > Len(checkpoint.results)

\* the run resumes from a readable progress checkpoint (and from nothing else)
ResumesFromCheckpoint ==
    cfg.resume /\ ~cfg.resume_from /\ checkpoint.state = "ok"

\* the tasks of the run's list that the checkpoint does not list as completed
NotInCheckpoint == Without(OwnTaskList, Range(checkpoint.completed_tasks))

\* the loop has reached the end of the list, or there was nothing to run
RanToEnd == rpc = "done" /\ ~rate_limited

\* C7 as claimed: a run resumed from a checkpoint holding C, once it has
\* returned, has called run_benchmark exactly for the tasks of T \ C
ResumeRunsExactlyTheRest ==
    (ResumesFromCheckpoint /\ rpc = "done")
        => called = NotInCheckpoint

\* C7: a run resumed from a checkpoint holding C calls run_benchmark only
\* for tasks of T \ C, in list order and once each, and for all of them
\* when the loop reaches the end of the list; the checkpoint's records open
\* the results and every aggregate of a run over a non-empty list
ResumeExclusivity ==
    (ResumesFromCheckpoint /\ rpc # "start")
        => /\ IsPrefixSeq(called, NotInCheckpoint)
           /\ \A i \in 1..Len(called) : called[i] \notin Range(checkpoint.completed_tasks)
           /\ (RanToEnd => called = NotInCheckpoint)
           /\ OwnTaskList # <<>> =>
                /\ IsPrefixSeq(checkpoint.results, results)
                /\ \A a \in Aggregates : IsPrefixSeq(checkpoint.results, a.tasks)

\* a resumed run over a list of which the checkpoint holds a part has run
\* the rest to the end
ResumeExclusivityWitness ==
    /\ ResumesFromCheckpoint /\ RanToEnd
    /\ Range(checkpoint.completed_tasks) \cap Range(OwnTaskList) # {}
    /\ called # <<>> /\ called = NotInCheckpoint
    /\ returned # <<>> /\ Len(returned[1].tasks) > Len(checkpoint.results)

\* the tasks the results file records with solver_success = true, and
\* their records
SolvedInFile == {results_file.tasks[i].task_name :
                    i \in {j \in 1..Len(results_file.tasks) :
                              results_file.tasks[j].solver_success}}
SolvedRecords == SelectSeq(results_file.tasks, LAMBDA r : r.solver_success)

\* the tasks of the run's list that the results file does not record as solved
NotSolvedInFile == Without(OwnTaskList, SolvedInFile)

RateLimitShortCircuit ==
    flagged > 0 => Len(called) = flagged

\* the tasks the resume strategy of the run takes as completed before it
CompletedBefore ==
    IF cfg.resume_from THEN SolvedInFile
    ELSE IF cfg.resume THEN Range(checkpoint.completed_tasks)
    ELSE {}

\* the tasks of the run's own list that were neither completed before the
\* run nor attempted in it
NotAttempted == Range(OwnTaskList) \ (Range(called) \cup CompletedBefore)

\* C10: after a rate-limit stop (of a run in which no save failed, resumed
\* if at all from records of tasks of its own list) the persisted aggregate
\* has rate_limited and incomplete set, and remaining_tasks is the number of
\* tasks of the run's own list that were not attempted
RemainingTasksOfOwnList ==
    (rpc = "done" /\ rate_limited /\ faults = 0
       /\ CompletedBefore \subseteq Range(OwnTaskList))
        => /\ final_results_file # <<>>
           /\ final_results_file[1].rate_limited
           /\ final_results_file[1].incomplete
           /\ final_results_file[1].has_remaining
           /\ final_results_file[1].remaining_tasks = Cardinality(NotAttempted)

\* task t has a record in the checkpoint pf and is listed as completed there
Checkpointed(pf, t) ==
    /\ pf.state = "ok"
    /\ \E i \in 1..Len(pf.results) : pf.results[i].task_name = t
    /\ t \in Range(pf.completed_tasks)

\* C11: whenever the loop is about to call run_benchmark for the next task,
\* every task called so far has its record in the progress checkpoint on
\* disk and in the aggregate on disk, and both files hold all the records
\* of the run so far; this after a normal iteration and after one that
\* went through the except clause
PersistBeforeNext ==
    (rpc = "loop" /\ called # <<>>)
        => /\ \A t \in Range(called) : Checkpointed(progress_file, t)
           /\ progress_file.results = results
           /\ progress_file.completed_tasks = completed_tasks
           /\ final_results_file # <<>>
           /\ final_results_file[1].tasks = results
           /\ final_results_file[1].total_tasks_ran = Len(results)
           /\ final_results_file[1].errors = counts.error
           /\ final_results_file[1].success = counts.success

\* the loop is about to call run_benchmark for a second task after an
\* iteration that went through the except clause
PersistBeforeNextWitness ==
    /\ rpc = "loop" /\ called # <<>> /\ idx <= Len(tasks)
    /\ results[Len(results)].error
    /\ Checkpointed(progress_file, called[Len(called)])
    /\ progress_file.results = results

\* run_benchmark raises for the task at the head of the loop: the step
\* appends the error record of that task and nothing else
RunBenchmarkRaised ==
    /\ rpc = "loop" /\ idx <= Len(tasks)
    /\ results' = Append(results, error_record(tasks[idx]))

BothResumeFlags ==
    cfg.resume /\ cfg.resume_from /\ rpc # "start" /\ OwnTaskList # <<>>

\* C24: a run configured with both resume and resume_from decides by the
\* results file alone which tasks to skip: its task list is the own list
\* without the file's solved tasks, and its lists start as the file's; the
\* progress checkpoint is not read
ResumeStrategiesNotCombined ==
    BothResumeFlags
      => /\ tasks = Without(OwnTaskList,
                            Range(load_results_from_file(results_file).tasks_to_skip))
         /\ IsPrefixSeq(load_results_from_file(results_file).tasks_to_skip,
                        completed_tasks)
         /\ IsPrefixSeq(load_results_from_file(results_file).previous_results, results)

\* such a run is about to run a task that the checkpoint lists as completed
ResumeStrategiesNotCombinedWitness ==
    /\ BothResumeFlags /\ rpc = "loop" /\ idx <= Len(tasks)
    /\ checkpoint.state = "ok"
    /\ tasks[idx] \in Range(checkpoint.completed_tasks)

\* the records of results that are flagged rate-limited
FlaggedRecords == { i \in 1..Len(results) : results[i].is_rate_limited }

\* a fresh run, to be followed by a run with resume
InitRerun == InitRun /\ ~cfg.resume /\ ~cfg.resume_from

\* the runner is started again with --resume once run_all_tasks has
\* returned: the same task list, and the progress file the first run left
ResumeRun ==
    /\ rpc = "done" /\ ~cfg.resume
    /\ cfg' = [cfg EXCEPT !.resume = TRUE]
    /\ checkpoint' = progress_file
    /\ rpc' = "start" /\ tasks' = <<>> /\ idx' = 0
    /\ completed_tasks' = <<>> /\ results' = <<>>
    /\ counts' = [success |-> 0, failure |-> 0, error |-> 0, skipped |-> 0]
    /\ rate_limited' = FALSE
    /\ returned' = <<>>
    /\ called' = <<>> /\ cycled' = <<>> /\ flagged' = 0
    /\ UNCHANGED <<requires_display, all_tasks, task_list, results_file, progress_file,
                   final_results_file, faults, cycleVars, unitVars>>

NextRerun == NextRun \/ ResumeRun

SpecRerun == InitRerun /\ [][NextRerun]_vars

\* the tasks whose record in the checkpoint the run started from is flagged
\* rate-limited
FlaggedInCheckpoint ==
    {load_progress(checkpoint).results[i].task_name :
        i \in {j \in 1..Len(load_progress(checkpoint).results) :
                  load_progress(checkpoint).results[j].is_rate_limited}}

\* C36: when the loop stops on the rate limit, the task whose result is
\* flagged rate-limited is in completed_tasks of the checkpoint on disk, and
\* the checkpoint stays when run_all_tasks returns; a following run with
\* resume never calls run_benchmark for that task and starts at the first
\* task of the list that the checkpoint does not hold
RateLimitedTaskNotRetried ==
    /\ (rpc = "break" \/ (rpc = "done" /\ rate_limited))
          => /\ progress_file.state = "ok"
             /\ \A i \in FlaggedRecords :
                    results[i].task_name \in Range(progress_file.completed_tasks)
    /\ (cfg.resume /\ rpc # "start")
          => /\ \A t \in FlaggedInCheckpoint : t \notin Range(called)
             /\ called # <<>>
                  => called[1] = Without(OwnTaskList,
                                         Range(load_progress(checkpoint).completed_tasks))[1]

\* the run that follows a rate-limit stop at the first task has called the
\* second task and not the first
RateLimitedTaskNotRetriedWitness ==
    /\ cfg.resume /\ FlaggedInCheckpoint = {1}
    /\ called = <<2>>

\* C26: a record flagged rate-limited is the record of a whole benchmark
\* cycle of its task, validation included; and when the loop stops on the
\* rate limit, such a record is in results, its task is in completed_tasks,
\* and the progress checkpoint and the aggregate on disk hold it
RateLimitAtTaskBoundary ==
    /\ \A i \in FlaggedRecords :
          /\ results[i] \in RunOutcomes(results[i].task_name)
          /\ results[i].task_name \in Range(cycled)
    /\ rpc = "break"
         => /\ FlaggedRecords # {}
            /\ \A i \in FlaggedRecords : results[i].task_name \in Range(completed_tasks)
            /\ progress_file = Progress(completed_tasks, results)
            /\ final_results_file # <<>>
            /\ final_results_file[1].tasks = results
            /\ final_results_file[1].rate_limited /\ final_results_file[1].incomplete

\* the loop has stopped on a rate-limited task whose validation passed
RateLimitAtTaskBoundaryWitness ==
    /\ rpc = "break"
    /\ results[Len(results)].is_rate_limited
    /\ results[Len(results)].success
    /\ progress_file = Progress(completed_tasks, results)

\* what a following run with resume loads from the checkpoint on disk
Reloaded == load_progress(progress_file)

\* C12: after a crash inside run_all_tasks, a following run with resume
\* loads the record of every task that had completed before the crash,
\* that is of every task called but the one in flight
CrashDurability ==
    rpc = "crashed"
        => \A i \in 1..(Len(called) - 1) :
              /\ called[i] \in Range(Reloaded.completed_tasks)
              /\ \E j \in 1..Len(Reloaded.results) :
                    Reloaded.results[j].task_name = called[i]

\* run_all_tasks has returned from after its loop (not from an early return)
ReturnedAfterLoop == rpc = "done" /\ returned # <<>> /\ returned[1].has_rate_limited

\* the loop was left by the break of the rate-limit check: the flag is set
\* and the last iteration did not go through the except clause
StoppedOnRateLimit == rate_limited /\ results # <<>> /\ ~results[Len(results)].error

\* C13: when run_all_tasks returns after its loop, the progress checkpoint
\* is gone if and only if the loop was not stopped for a rate limit; after a
\* rate-limit stop it exists and lists every task completed so far
CheckpointLifecycle ==
    ReturnedAfterLoop
        => /\ (progress_file.state = "absent") <=> ~StoppedOnRateLimit
           /\ StoppedOnRateLimit =>
                /\ progress_file.state = "ok"
                /\ \A t \in Range(completed_tasks) : Checkpointed(progress_file, t)

\* C14: in every aggregate persisted or returned, with N records of which S
\* are flagged skipped and P have success = true, tasks_attempted is N - S
\* and task_success_rate is P / (N - S) * 100 (0 when N = S)
SuccessRateDenominator ==
    \A a \in Aggregates :
        LET N == Len(a.tasks)
            S == CountSkipped(a.tasks)
            P == CountSuccess(a.tasks)
        IN /\ a.tasks_attempted = N - S
           /\ a.task_success_rate = SuccessRate(P, N - S)

\* the record the run has of a call: the first record of this run for the task
HasSkippedRecord(t) ==
    \E j \in 1..Len(results) : results[j] = skipped_record(t)

\* the step calls run_benchmark and appends the skipped record it returned
AppendsSkipped ==
    /\ Len(called') = Len(called) + 1
    /\ Len(results') > Len(results)
    /\ results'[Len(results) + 1] = skipped_record(called'[Len(called')])

-----------------------------------------------------------------------------
(* ValidationParser.parse_output *)

\* A line of engine output is a sequence of pieces: "PASS" is the text
\* VALIDATION_PASSED, "FAIL" the text VALIDATION_FAILED, ":" a colon, "x"
\* any other text.  An output is the sequence of its lines.
T_PASS == "PASS"
T_FAIL == "FAIL"

\* the lines the outputs are made of
LineShapes ==
    { <<>>, <<"x">>,
      <<T_PASS>>, <<T_FAIL>>,
      <<"x", T_PASS>>, <<"x", T_FAIL>>,
      <<T_PASS, ":", "x">>, <<T_FAIL, ":", "x">>,
      <<T_PASS, ":">>,
      <<T_PASS, "x", T_FAIL>>, <<T_FAIL, "x", T_PASS>> }

Outputs == UNION { [1..n -> LineShapes] : n \in 0..MaxLines }

\* a faulty match that looks at the start of the line only (re.match)
matches_at_start(line, marker) == line # <<>> /\ line[1] = marker

\* re.search(pattern, line) finds the marker anywhere in the line
Matches(line, marker) == \E i \in 1..Len(line) : line[i] = marker

\* the start of the leftmost match
MatchStart(line, marker) ==
    CHOOSE i \in 1..Len(line) :
        line[i] = marker /\ \A j \in 1..(i - 1) : line[j] # marker

\* match.group(1) or default: the text after "MARKER:" up to the end of the
\* line when there is some, else the default message
match_message(line, marker, default) ==
    LET i == MatchStart(line, marker)
    IN IF i + 2 <= Len(line) /\ line[i + 1] = ":"
         THEN SubSeq(line, i + 2, Len(line))
         ELSE <<default>>

ValidationResult(success, message) == [success |-> success, message |-> message]

\* output.strip().split("\n"): the empty output is one empty line
split_lines(out) == IF out = <<>> THEN << <<>> >> ELSE out

\* a faulty scan in which the last line that carries a marker decides
RECURSIVE scan_lines_last(_)
scan_lines_last(lines) ==
    IF lines = <<>>
      THEN ValidationResult(FALSE, <<"No validation result found in output">>)
    ELSE LET line == lines[Len(lines)]
         IN IF Matches(line, T_PASS)
              THEN ValidationResult(TRUE, match_message(line, T_PASS, "Validation passed"))
            ELSE IF Matches(line, T_FAIL)
              THEN ValidationResult(FALSE, match_message(line, T_FAIL, "Validation failed"))
            ELSE scan_lines_last(SubSeq(lines, 1, Len(lines) - 1))

\* a faulty scan that takes an output without a marker for a pass
RECURSIVE scan_lines_lenient(_)
scan_lines_lenient(lines) ==
    IF lines = <<>>
      THEN ValidationResult(TRUE, <<"Validation passed">>)
    ELSE LET line == Head(lines)
         IN IF Matches(line, T_PASS)
              THEN ValidationResult(TRUE, match_message(line, T_PASS, "Validation passed"))
            ELSE IF Matches(line, T_FAIL)
              THEN ValidationResult(FALSE, match_message(line, T_FAIL, "Validation failed"))
            ELSE scan_lines_lenient(Tail(lines))

\* the for loop of parse_output: the first line that matches a pattern
\* decides, the pass pattern being tried first on each line
RECURSIVE scan_lines(_)
scan_lines(lines) ==
    IF lines = <<>>
      THEN ValidationResult(FALSE, <<"No validation result found in output">>)
    ELSE LET line == Head(lines)
         IN IF Matches(line, T_PASS)
              THEN ValidationResult(TRUE, match_message(line, T_PASS, "Validation passed"))
            ELSE IF Matches(line, T_FAIL)
              THEN ValidationResult(FALSE, match_message(line, T_FAIL, "Validation failed"))
            ELSE scan_lines(Tail(lines))

parse_output(out) == scan_lines(split_lines(out))

\* nothing else is examined while the parser is
InitParse ==
    /\ output \in Outputs /\ parsed = <<>>
    /\ SolverIdle /\ FactoryIdle /\ AccountsIdle /\ ValidationIdle /\ PipelineIdle
    /\ LlmIdle /\ ExtractIdle
    /\ taskFs = EmptyFs /\ pc = "idle"
    /\ sandboxExists = FALSE /\ sandboxFs = EmptyFs /\ sandbox_dir = FALSE
    /\ validationExists = FALSE /\ validationFs = EmptyFs /\ validation_dir = FALSE
    /\ archiveExists = FALSE /\ archiveFs = EmptyFs
    /\ solver_result = NoSolverResult /\ validation_result = "none"
    /\ agentOps = 0 /\ solverSawFs = <<>> /\ outcome = "running" /\ rmFailed = {}
    /\ cwd = "original"
    /\ RunIdle

ParseOutput ==
    /\ parsed = <<>> /\ rpc = "idle" /\ pc = "idle"
    /\ parsed' = <<parse_output(output)>>
    /\ UNCHANGED <<output, solverVars, factoryVars, accountVars, validationVars, pipelineVars,
                   llmVars, extractVars, cycleVars, runVars>>

NextParse == ParseOutput

SpecParse == InitParse /\ [][NextParse]_vars

\* the first line of the output that carries a marker (0: none does)
FirstMarkerLine ==
    IF \E i \in 1..Len(output) : Matches(output[i], T_PASS) \/ Matches(output[i], T_FAIL)
      THEN CHOOSE i \in 1..Len(output) :
             /\ Matches(output[i], T_PASS) \/ Matches(output[i], T_FAIL)
             /\ \A j \in 1..(i - 1) : ~Matches(output[j], T_PASS) /\ ~Matches(output[j], T_FAIL)
      ELSE 0

\* the markers are on different lines: both occur, and no line carries both
MarkersOnDifferentLines ==
    /\ \E i \in 1..Len(output) : Matches(output[i], T_PASS)
    /\ \E i \in 1..Len(output) : Matches(output[i], T_FAIL)
    /\ \A i \in 1..Len(output) : ~(Matches(output[i], T_PASS) /\ Matches(output[i], T_FAIL))

\* C16: for an output with a pass marker and a fail marker on different
\* lines, the result is success exactly when the first line that carries a
\* marker carries the pass marker; the lines after it do not matter
MarkerPriority ==
    (parsed # <<>> /\ MarkersOnDifferentLines)
        => /\ parsed[1].success = Matches(output[FirstMarkerLine], T_PASS)
           /\ parsed[1] = parse_output(SubSeq(output, 1, FirstMarkerLine))

\* an output whose first marker is the fail marker and whose later line
\* carries the pass marker has been parsed as a failure
MarkerPriorityWitness ==
    /\ parsed # <<>> /\ MarkersOnDifferentLines
    /\ Matches(output[FirstMarkerLine], T_FAIL)
    /\ FirstMarkerLine < Len(output)
    /\ ~parsed[1].success

\* the line holds the marker at some position
Carries(line, marker) == \E i \in 1..Len(line) : line[i] = marker

\* the lines of the output that hold a marker at some position
MarkerLines ==
    {k \in 1..Len(output) : Carries(output[k], T_PASS) \/ Carries(output[k], T_FAIL)}

\* the first line that holds a marker, 0 if there is none
DecidingLine ==
    IF MarkerLines = {} THEN 0
    ELSE CHOOSE k \in MarkerLines : \A j \in MarkerLines : k <= j

\* C39: a marker is recognised at any position of a line: the first line
\* that holds a marker anywhere decides, with success = true exactly when it
\* holds the pass marker; so a line with both markers gives success = true
\* whatever their order
MarkerAnywhere ==
    (parsed # <<>> /\ DecidingLine # 0)
        => parsed[1].success = Carries(output[DecidingLine], T_PASS)

\* a line that holds the fail marker first and the pass marker after it,
\* neither at the start of the first line with a marker, gave success = true
MarkerAnywhereWitness ==
    /\ parsed # <<>> /\ DecidingLine # 0
    /\ output[DecidingLine] = <<T_FAIL, "x", T_PASS>>
    /\ \E k \in 1..Len(output) : output[k] = <<"x", T_FAIL>>
    /\ parsed[1].success

\* C17: an output without any marker, the empty output included, gives
\* success = false with the message "No validation result found in output",
\* and success = true is given only when a pass marker was found
SilenceIsFailure ==
    parsed # <<>>
        => /\ (FirstMarkerLine = 0
                 => parsed[1] = ValidationResult(FALSE,
                                   <<"No validation result found in output">>))
           /\ (parsed[1].success => \E i \in 1..Len(output) : Matches(output[i], T_PASS))

\* the empty output has been parsed as a failure
SilenceIsFailureWitness ==
    /\ parsed # <<>> /\ output = <<>>
    /\ ~parsed[1].success
    /\ parsed[1].message = <<"No validation result found in output">>


-----------------------------------------------------------------------------
(* The solvers: BaseSolver and its five variants, and SolverFactory *)

\* the agents of the solver registry
Agents == {"claude-code", "codex", "gemini-cli", "mini-swe", "openhands"}

\* the time a solver is told to wait for its backend (the runner passes TIMEOUT)
timeout_seconds == MaxClock - 1

\* str.lower(), word by word, on the words the model uses
LowerWord(w) ==
    CASE w = "Rate" -> "rate"
      [] w = "RESOURCE" -> "resource"
      [] w = "Overloaded" -> "overloaded"
      [] OTHER -> w
lower(text) == [i \in 1..Len(text) |-> LowerWord(text[i])]

\* keyword in text: the words of the keyword stand next to each other in the text
Contains(text, keyword) ==
    \E i \in 0..(Len(text) - Len(keyword)) :
        \A j \in 1..Len(keyword) : text[i + j] = keyword[j]

\* the keywords that four of the five variants share
CommonKeywords ==
    { <<"rate", "limit">>, <<"rate_limit">>, <<"ratelimit">>, <<"quota", "exceeded">>,
      <<"429">>, <<"too", "many", "requests">> }
ClaudeCodeSolver_keywords ==
    CommonKeywords \cup { <<"overloaded">>, <<"quota_exceeded">>, <<"capacity">>,
                          <<"usage", "limit">> }
CodexSolver_keywords == CommonKeywords
GeminiSolver_keywords ==
    CommonKeywords \cup { <<"resource", "exhausted">>, <<"resource_exhausted">> }
MiniSweSolver_keywords == CommonKeywords
OpenHandsSolver_keywords == CommonKeywords

\* the rate_limit_keywords of the agent's is_rate_limit_error
rate_limit_keywords(agent) ==
    CASE agent = "claude-code" -> ClaudeCodeSolver_keywords
      [] agent = "codex" -> CodexSolver_keywords
      [] agent = "gemini-cli" -> GeminiSolver_keywords
      [] agent = "mini-swe" -> MiniSweSolver_keywords
      [] agent = "openhands" -> OpenHandsSolver_keywords

\* any(keyword in error_message.lower() for keyword in rate_limit_keywords)
is_rate_limit_error(agent, error_message) ==
    \E keyword \in rate_limit_keywords(agent) : Contains(lower(error_message), keyword)

\* the messages and error outputs a backend ends with
Texts ==
    { <<"segmentation", "fault">>,
      <<"Rate", "limit", "reached">>,
      <<"error", "429">>,
      <<"RESOURCE", "exhausted">>,
      <<"Overloaded">>,
      <<"quota">> }

\* the manifests a working directory holds: none, one that cannot be read
\* or parsed, an empty object, one whose instruction is no string, a good one
Manifests == {"missing", "unreadable", "empty", "instruction_not_str", "ok"}

\* a faulty load_task_config that lets the error of open or json.load out
load_task_config_raising(manifest) ==
    IF manifest \in {"missing", "unreadable"} THEN [raises |-> TRUE, config |-> "None"]
    ELSE [raises |-> FALSE, config |-> manifest]

\* load_task_config: the parsed manifest, or None on any exception
load_task_config(manifest) ==
    IF manifest \in {"missing", "unreadable"} THEN [raises |-> FALSE, config |-> "None"]
    ELSE [raises |-> FALSE, config |-> manifest]

\* bool(config): None and {} are falsy
Truthy(config) == config \notin {"None", "empty"}

\* create_task_prompt: instruction += "..." raises TypeError when the
\* instruction is no string
create_task_prompt(config) ==
    IF config = "instruction_not_str" THEN [raises |-> TRUE] ELSE [raises |-> FALSE]

\* SolverResult(success, message, is_rate_limited)
SolverResult(success, message, is_rate_limited) ==
    [success |-> success, message |-> message, is_rate_limited |-> is_rate_limited]

\* SolverResult(success=False, message="Could not load task configuration")
ConfigFailure == SolverResult(FALSE, <<"Could not load task configuration">>, FALSE)

\* the behaviours of a backend: it ends after at ticks with exit code 0,
\* with another exit code and an error output, or with an exception and
\* its message, or it never ends
EndsOk(at) == [ends |-> "ok", at |-> at, text |-> <<>>]
EndsNonZero(at, text) == [ends |-> "nonzero", at |-> at, text |-> text]
EndsRaising(at, text) == [ends |-> "raises", at |-> at, text |-> text]
CommandNotFound == [ends |-> "FileNotFoundError", at |-> 0, text |-> <<"No", "such", "file">>]
NeverEnds == [ends |-> "never", at |-> MaxClock + 1, text |-> <<>>]

\* the variants that start the backend as a process of their own
Subprocess == {"codex", "gemini-cli", "mini-swe"}

Backends(agent) ==
    { EndsOk(at) : at \in 0..MaxClock }
      \cup { EndsRaising(at, text) : at \in 0..MaxClock, text \in Texts }
      \cup { NeverEnds }
      \cup (IF agent \in Subprocess
              THEN { EndsNonZero(at, text) : at \in 0..MaxClock, text \in Texts }
                     \cup { CommandNotFound }
              ELSE {})

\* ClaudeCodeSolver.solve_task_async: the messages of query() are awaited
\* with no limit; an exception is classified
ClaudeCodeSolver_timeout == FALSE
ClaudeCodeSolver_ended(b) ==
    IF b.ends = "ok" THEN SolverResult(TRUE, <<"Task completed">>, FALSE)
    ELSE SolverResult(FALSE, <<"Error invoking Claude Code:">> \o b.text,
                      is_rate_limit_error("claude-code", b.text))

\* CodexSolver.solve_task: subprocess.run with timeout; a non-zero exit is
\* reported with its STDERR and not classified; an exception is classified
CodexSolver_timeout == TRUE
CodexSolver_ended(b) ==
    CASE b.ends = "ok" -> SolverResult(TRUE, <<"No response detected.">>, FALSE)
      [] b.ends = "nonzero" ->
           SolverResult(FALSE, <<"Codex command failed", "STDERR:">> \o b.text, FALSE)
      [] b.ends = "FileNotFoundError" ->
           SolverResult(FALSE, <<"codex command not found">>, FALSE)
      [] b.ends = "raises" ->
           SolverResult(FALSE, <<"Error invoking Codex:">> \o b.text,
                        is_rate_limit_error("codex", b.text))

\* GeminiSolver.solve_task_async: wait_for(proc.communicate(), timeout); a
\* non-zero exit is reported by its code and not classified; an exception
\* is classified
GeminiSolver_timeout == TRUE
GeminiSolver_ended(b) ==
    CASE b.ends = "ok" -> SolverResult(TRUE, <<"Task completed">>, FALSE)
      [] b.ends = "nonzero" -> SolverResult(FALSE, <<"Gemini CLI exited with code">>, FALSE)
      [] b.ends = "FileNotFoundError" ->
           SolverResult(FALSE, <<"gemini command not found">>, FALSE)
      [] b.ends = "raises" ->
           SolverResult(FALSE, <<"Error invoking Gemini CLI:">> \o b.text,
                        is_rate_limit_error("gemini-cli", b.text))

\* MiniSweSolver.solve_task: subprocess.run with timeout; neither a non-zero
\* exit nor an exception is classified
MiniSweSolver_timeout == TRUE
MiniSweSolver_ended(b) ==
    CASE b.ends = "ok" -> SolverResult(TRUE, <<"Task completed">>, FALSE)
      [] b.ends = "nonzero" -> SolverResult(FALSE, <<"Mini-SWE-Agent returned code">>, FALSE)
      [] b.ends = "FileNotFoundError" ->
           SolverResult(FALSE, <<"mini-swe-agent-mcp command not found">>, FALSE)
      [] b.ends = "raises" ->
           SolverResult(FALSE, <<"Error invoking Mini-SWE-Agent:">> \o b.text, FALSE)

\* OpenHandsSolver.solve_task: conversation.run() is called with no limit;
\* an exception is classified
OpenHandsSolver_timeout == FALSE
OpenHandsSolver_ended(b) ==
    IF b.ends = "ok" THEN SolverResult(TRUE, <<"Task completed">>, FALSE)
    ELSE SolverResult(FALSE, <<"Error invoking OpenHands:">> \o b.text,
                      is_rate_limit_error("openhands", b.text))

\* the solver class the registry names for the agent: whether it limits the
\* wait, and what it returns when the backend has ended
enforces_timeout(agent) ==
    CASE agent = "claude-code" -> ClaudeCodeSolver_timeout
      [] agent = "codex" -> CodexSolver_timeout
      [] agent = "gemini-cli" -> GeminiSolver_timeout
      [] agent = "mini-swe" -> MiniSweSolver_timeout
      [] agent = "openhands" -> OpenHandsSolver_timeout
backend_ended(agent, b) ==
    CASE agent = "claude-code" -> ClaudeCodeSolver_ended(b)
      [] agent = "codex" -> CodexSolver_ended(b)
      [] agent = "gemini-cli" -> GeminiSolver_ended(b)
      [] agent = "mini-swe" -> MiniSweSolver_ended(b)
      [] agent = "openhands" -> OpenHandsSolver_ended(b)

\* the SolverResult of the except clause for the expired timeout
timed_out(agent) ==
    SolverResult(FALSE, <<agent, "timed out after timeout_seconds seconds">>, FALSE)

\* SolverFactory.create_solver raises for openhands when its import failed
create_solver_raises(agent, openhands_available) ==
    agent = "openhands" /\ ~openhands_available

\* SolverResult(success=False, message="Error during solving: ...")
ErrorDuringSolving == SolverResult(FALSE, <<"Error during solving:">>, FALSE)

\* the solve boundary of the runner (try ... except Exception ... finally):
\* what becomes of an Exception raised inside, or of the returned result
solve_boundary(raised, returned_result) ==
    IF raised THEN [escapes |-> FALSE, solver_result |-> ErrorDuringSolving]
    ELSE [escapes |-> FALSE, solver_result |-> returned_result]

-----------------------------------------------------------------------------
(* One solve step of the runner: create_solver, solve_task, the boundary *)

\* the solves examined: every agent, manifest and backend behaviour
Solves ==
    { [agent |-> a, manifest |-> m, backend |-> b, openhands_available |-> o] :
        a \in Agents, m \in Manifests, b \in UNION { Backends(x) : x \in Agents },
        o \in BOOLEAN }

InitSolve ==
    /\ solver \in { s \in Solves : /\ s.backend \in Backends(s.agent)
                                   /\ (s.agent # "openhands" => s.openhands_available) }
    /\ phase = "create" /\ clock = 0 /\ child = FALSE
    /\ invoked = FALSE /\ solved = <<>> /\ bounded = <<>>
    /\ ParserIdle /\ FactoryIdle /\ AccountsIdle /\ ValidationIdle /\ PipelineIdle
    /\ LlmIdle /\ ExtractIdle /\ CycleIdle /\ RunIdle

\* SolverFactory.create_solver, inside the try block of the runner
CreateSolver ==
    /\ phase = "create"
    /\ phase' = IF create_solver_raises(solver.agent, solver.openhands_available)
                  THEN "raising" ELSE "load"
    /\ UNCHANGED <<solver, clock, child, invoked, solved, bounded,
                   parserVars, factoryVars, accountVars, validationVars, pipelineVars,
                   llmVars, extractVars, cycleVars, runVars>>

\* solve_task: config = self.load_config(); if not config: return SolverResult(...)
LoadConfig ==
    /\ phase = "load"
    /\ LET c == load_task_config(solver.manifest) IN
         IF c.raises
           THEN phase' = "raising" /\ solved' = solved
           ELSE IF ~Truthy(c.config)
             THEN phase' = "returned" /\ solved' = <<ConfigFailure>>
             ELSE phase' = "prompt" /\ solved' = solved
    /\ UNCHANGED <<solver, clock, child, invoked, bounded,
                   parserVars, factoryVars, accountVars, validationVars, pipelineVars,
                   llmVars, extractVars, cycleVars, runVars>>

\* solve_task: prompt = self.get_task_prompt(config), before the try block
\* of the solver; then the backend is invoked
GetTaskPrompt ==
    /\ phase = "prompt"
    /\ IF create_task_prompt(solver.manifest).raises
         THEN phase' = "raising" /\ invoked' = invoked /\ child' = child
         ELSE /\ phase' = "running"
              /\ invoked' = TRUE
              /\ child' = (solver.agent \in Subprocess
                             /\ solver.backend.ends # "FileNotFoundError")
    /\ UNCHANGED <<solver, clock, solved, bounded, parserVars, factoryVars, accountVars, validationVars, pipelineVars,
                   llmVars, extractVars, cycleVars, runVars>>

\* time passes while the solver waits for the backend
Tick ==
    /\ phase = "running"
    /\ clock < MaxClock
    /\ clock < solver.backend.at
    /\ enforces_timeout(solver.agent) => clock < timeout_seconds
    /\ clock' = clock + 1
    /\ UNCHANGED <<solver, phase, child, invoked, solved, bounded,
                   parserVars, factoryVars, accountVars, validationVars, pipelineVars,
                   llmVars, extractVars, cycleVars, runVars>>

\* the backend ends and solve_task returns the SolverResult it makes of it
BackendEnds ==
    /\ phase = "running"
    /\ clock = solver.backend.at
    /\ solved' = <<backend_ended(solver.agent, solver.backend)>>
    /\ child' = FALSE
    /\ phase' = "returned"
    /\ UNCHANGED <<solver, clock, invoked, bounded, parserVars, factoryVars, accountVars, validationVars, pipelineVars,
                   llmVars, extractVars, cycleVars, runVars>>

\* the wait of subprocess.run or asyncio.wait_for expires: the process is
\* killed and waited for, and the except clause returns the timeout result
TimeoutExpires ==
    /\ phase = "running"
    /\ enforces_timeout(solver.agent)
    /\ clock = timeout_seconds
    /\ clock < solver.backend.at
    /\ solved' = <<timed_out(solver.agent)>>
    /\ child' = FALSE
    /\ phase' = "returned"
    /\ UNCHANGED <<solver, clock, invoked, bounded, parserVars, factoryVars, accountVars, validationVars, pipelineVars,
                   llmVars, extractVars, cycleVars, runVars>>

\* KeyboardInterrupt while the backend runs: it is no Exception, and no
\* except clause of the solver or of the runner's boundary takes it
Interrupt ==
    /\ phase = "running"
    /\ phase' = "interrupted"
    /\ child' \in {child, FALSE}
    /\ UNCHANGED <<solver, clock, invoked, solved, bounded,
                   parserVars, factoryVars, accountVars, validationVars, pipelineVars,
                   llmVars, extractVars, cycleVars, runVars>>

\* the runner's try block after solve_task (the log is written, which may
\* raise) and its except Exception clause
SolveBoundary ==
    /\ phase \in {"returned", "raising"}
    /\ \E log_raises \in BOOLEAN :
         LET raised == phase = "raising" \/ log_raises
             b == solve_boundary(raised, IF phase = "returned" THEN solved[1]
                                         ELSE ErrorDuringSolving)
         IN  /\ phase' = IF b.escapes THEN "escaped" ELSE "done"
             /\ bounded' = IF b.escapes THEN bounded ELSE <<b.solver_result>>
    /\ UNCHANGED <<solver, clock, child, invoked, solved,
                   parserVars, factoryVars, accountVars, validationVars, pipelineVars,
                   llmVars, extractVars, cycleVars, runVars>>

NextSolve ==
    \/ CreateSolver \/ LoadConfig \/ GetTaskPrompt \/ Tick \/ BackendEnds
    \/ TimeoutExpires \/ Interrupt \/ SolveBoundary

SpecSolve == InitSolve /\ [][NextSolve]_vars

\* the backend of the solve has not finished after timeout_seconds
Unfinished == solver.backend.at > timeout_seconds

\* C18: for each of the five variants, a backend that has not finished after
\* timeout_seconds is waited for no longer: solve_task returns a failed
\* SolverResult with the timeout message, and no backend process is left
HardTimeout ==
    /\ phase = "running" => clock <= timeout_seconds
    /\ (invoked /\ Unfinished /\ solved # <<>>)
         => solved[1] = timed_out(solver.agent) /\ ~child

\* the backend of the solve ended, with an exception or a non-zero exit,
\* on a message or error output that holds a rate-limit keyword of the agent
EndedRateLimited ==
    /\ invoked /\ solved # <<>>
    /\ clock = solver.backend.at
    /\ solver.backend.ends \in {"raises", "nonzero"}
    /\ is_rate_limit_error(solver.agent, solver.backend.text)

\* C19: for every variant, when the backend ends with an exception or a
\* non-zero exit whose message or error output holds one of the variant's
\* rate-limit keywords, in any case of letters, the returned SolverResult
\* has is_rate_limited = true
RateLimitClassification ==
    EndedRateLimited => solved[1].is_rate_limited

\* solve_task was called on a working directory whose manifest is missing
\* or cannot be read, and is over
SolvedWithoutManifest ==
    /\ solver.manifest \in {"missing", "unreadable"}
    /\ ~create_solver_raises(solver.agent, solver.openhands_available)
    /\ phase \notin {"create", "load"}

\* C20: for every variant, on a missing or unreadable manifest solve_task
\* returns a failed SolverResult, without invoking the backend and without
\* raising; and no Exception of a solver step passes the runner's solve
\* boundary: the step ends with a failed SolverResult in its place
ManifestFailFast ==
    /\ SolvedWithoutManifest
         => /\ ~invoked
            /\ solved # <<>> /\ ~solved[1].success
            /\ solved = <<ConfigFailure>>
    /\ phase \notin {"escaped"}
    /\ phase = "done"
         => /\ bounded # <<>>
            /\ solved = <<>> => bounded = <<ErrorDuringSolving>>
            /\ ~(bounded[1].success /\ solved = <<>>)

\* the solve step is over for a variant whose manifest cannot be read: the
\* runner holds the failed result of the manifest check
ManifestFailFastWitness ==
    /\ phase = "done"
    /\ solver.manifest = "unreadable"
    /\ solver.agent = "gemini-cli"
    /\ ~invoked
    /\ bounded = <<ConfigFailure>>

-----------------------------------------------------------------------------
(* SolverFactory, BaseSolver.__init__ and the runner's constructor *)

\* a class: its name, its SUPPORTS_MCP flag, and whether it inherits from BaseSolver
SolverClass(name, supports_mcp, is_solver) ==
    [name |-> name, SUPPORTS_MCP |-> supports_mcp, is_solver |-> is_solver]
NoClass == SolverClass("", FALSE, FALSE)

\* the five solver classes of the repository
BuiltinClass(agent) ==
    CASE agent = "claude-code" -> SolverClass("ClaudeCodeSolver", TRUE, TRUE)
      [] agent = "mini-swe" -> SolverClass("MiniSweSolver", TRUE, TRUE)
      [] agent = "codex" -> SolverClass("CodexSolver", TRUE, TRUE)
      [] agent = "gemini-cli" -> SolverClass("GeminiSolver", TRUE, TRUE)
      [] agent = "openhands" -> SolverClass("OpenHandsSolver", TRUE, TRUE)

\* classes of an extension: two BaseSolver subclasses whose __init__ calls
\* super().__init__ as the five do, one with and one without MCP support,
\* and a class that is no solver
PluginClasses ==
    { SolverClass("PluginMcp", TRUE, TRUE), SolverClass("PluginPlain", FALSE, TRUE),
      SolverClass("NotASolver", FALSE, FALSE) }
Classes == { BuiltinClass(a) : a \in Agents } \cup PluginClasses

\* the agent names in use: the five, the new names an extension registers
\* its variants under, and a name of nothing
NewNames == {"plugin", "plugin2"}
Names == Agents \cup NewNames \cup {"nobody"}

\* the options of a construction
Options == [use_mcp : BOOLEAN, model : {"None", "m"}]

\* _SOLVER_REGISTRY as the class body builds it
SOLVER_REGISTRY(available) ==
    [a \in (IF available THEN Agents ELSE Agents \ {"openhands"}) |-> BuiltinClass(a)]

\* what a call comes to: the exception it raises, or the instance it makes
RaisesError(e) == [raises |-> e, instance |-> <<>>]
Instance(cls, use_mcp, model) ==
    [raises |-> "none",
     instance |-> <<[cls |-> cls.name, use_mcp |-> use_mcp, model |-> model]>>]

\* a faulty BaseSolver.__init__ that does not look at SUPPORTS_MCP
BaseSolver_init_unchecked(cls, use_mcp, model) == Instance(cls, use_mcp, model)

\* BaseSolver.__init__, reached through the subclass's __init__, which then
\* stores the model
BaseSolver_init(cls, use_mcp, model) ==
    IF use_mcp /\ ~cls.SUPPORTS_MCP THEN RaisesError("ValueError")
    ELSE Instance(cls, use_mcp, model)

\* solver_class(**kwargs): a keyword that is not passed takes its default
construct(cls, kwargs) ==
    BaseSolver_init(cls,
                    IF kwargs.has_use_mcp THEN kwargs.use_mcp ELSE FALSE,
                    IF kwargs.has_model THEN kwargs.model ELSE "None")

\* SolverFactory.create_solver
create_solver(reg, available, agent, options) ==
    IF agent \notin DOMAIN reg THEN RaisesError("ValueError")
    ELSE IF agent = "openhands" /\ ~available THEN RaisesError("RuntimeError")
    ELSE IF options.use_mcp /\ ~reg[agent].SUPPORTS_MCP THEN RaisesError("ValueError")
    ELSE construct(reg[agent],
                   [has_model |-> agent \in Agents /\ options.model # "None",
                    model |-> options.model,
                    has_use_mcp |-> reg[agent].SUPPORTS_MCP,
                    use_mcp |-> options.use_mcp])

\* SolverFactory.get_available_agents (the names, without their order)
get_available_agents(reg) == DOMAIN reg

\* SolverFactory.register_solver
register_solver(reg, agent_name, solver_class) ==
    IF ~solver_class.is_solver
      THEN [raises |-> "TypeError", registry |-> reg]
      ELSE [raises |-> "none",
            registry |-> [n \in DOMAIN reg \cup {agent_name} |->
                            IF n = agent_name THEN solver_class ELSE reg[n]]]

\* GodotBenchmarkRunner.__init__ with _validate_agent_configuration: the
\* runner is made, or the constructor raises ("None": no agent is given)
Runner == SolverClass("GodotBenchmarkRunner", FALSE, FALSE)
validate_agent_configuration(reg, agent, options) ==
    IF agent = "None" THEN Instance(Runner, options.use_mcp, options.model)
    ELSE IF agent \notin get_available_agents(reg) THEN RaisesError("ValueError")
    ELSE IF options.use_mcp /\ ~reg[agent].SUPPORTS_MCP THEN RaisesError("ValueError")
    ELSE Instance(Runner, options.use_mcp, options.model)

\* the class the registry holds for a name
ClassOf(reg, agent) == IF agent \in DOMAIN reg THEN reg[agent] ELSE NoClass

\* a call and what came of it
Call(op, name, cls, options, came) ==
    [op |-> op, name |-> name, cls |-> cls, options |-> options, outcome |-> came]

InitFactory ==
    /\ OPENHANDS_AVAILABLE \in BOOLEAN
    /\ registry = SOLVER_REGISTRY(OPENHANDS_AVAILABLE)
    /\ last = <<>> /\ registrations = 0
    /\ ParserIdle /\ SolverIdle /\ AccountsIdle /\ ValidationIdle /\ PipelineIdle
    /\ LlmIdle /\ ExtractIdle /\ CycleIdle /\ RunIdle

\* a call of SolverFactory.register_solver, for a new variant
RegisterSolver ==
    /\ registrations < MaxRegistrations
    /\ \E name \in NewNames, cls \in PluginClasses :
         LET r == register_solver(registry, name, cls) IN
           /\ registry' = r.registry
           /\ last' = <<Call("register_solver", name, cls,
                             [use_mcp |-> FALSE, model |-> "None"],
                             RaisesError(r.raises))>>
    /\ registrations' = registrations + 1
    /\ UNCHANGED <<OPENHANDS_AVAILABLE, parserVars, solverVars, accountVars, validationVars, pipelineVars,
                   llmVars, extractVars, cycleVars, runVars>>

\* a call of SolverFactory.create_solver
CreateSolverCall ==
    /\ \E name \in Names, o \in Options :
         last' = <<Call("create_solver", name, ClassOf(registry, name), o,
                        create_solver(registry, OPENHANDS_AVAILABLE, name, o))>>
    /\ UNCHANGED <<registry, OPENHANDS_AVAILABLE, registrations,
                   parserVars, solverVars, accountVars, validationVars, pipelineVars,
                   llmVars, extractVars, cycleVars, runVars>>

\* a solver class is constructed directly
ConstructSolver ==
    /\ \E cls \in { c \in Classes : c.is_solver }, o \in Options :
         last' = <<Call("construct", "", cls, o,
                        construct(cls, [has_model |-> TRUE, model |-> o.model,
                                        has_use_mcp |-> TRUE, use_mcp |-> o.use_mcp]))>>
    /\ UNCHANGED <<registry, OPENHANDS_AVAILABLE, registrations,
                   parserVars, solverVars, accountVars, validationVars, pipelineVars,
                   llmVars, extractVars, cycleVars, runVars>>

\* a GodotBenchmarkRunner is constructed
ConstructRunner ==
    /\ \E agent \in Names \cup {"None"}, o \in Options :
         last' = <<Call("runner", agent, ClassOf(registry, agent), o,
                        validate_agent_configuration(registry, agent, o))>>
    /\ UNCHANGED <<registry, OPENHANDS_AVAILABLE, registrations,
                   parserVars, solverVars, accountVars, validationVars, pipelineVars,
                   llmVars, extractVars, cycleVars, runVars>>

NextFactory == RegisterSolver \/ CreateSolverCall \/ ConstructSolver \/ ConstructRunner

SpecFactory == InitFactory /\ [][NextFactory]_vars

\* the last call asked for MCP on a solver class that does not support it
McpAskedOfPlainClass ==
    /\ last # <<>>
    /\ last[1].op \in {"construct", "create_solver", "runner"}
    /\ last[1].options.use_mcp
    /\ last[1].cls.is_solver /\ ~last[1].cls.SUPPORTS_MCP

\* C21: use_mcp = true for a solver class whose SUPPORTS_MCP is false fails
\* with ValueError at construction, whether the class is constructed
\* directly, through create_solver or through the runner's constructor: no
\* solver and no runner is made
CapabilityFailFast ==
    McpAskedOfPlainClass
      => last[1].outcome.raises = "ValueError" /\ last[1].outcome.instance = <<>>

\* create_solver was asked for MCP on a registered class without it, and raised
CapabilityFailFastWitness ==
    /\ McpAskedOfPlainClass
    /\ last[1].op = "create_solver"
    /\ last[1].outcome = RaisesError("ValueError")

\* C22: create_solver raises ValueError for every name that is not in the
\* registry; a name registered for a BaseSolver subclass is listed by
\* get_available_agents, and create_solver builds for it an instance of that
\* class with the requested options, the model included
RegistryDecidesCreatability ==
    (last # <<>> /\ last[1].op = "create_solver")
      => /\ last[1].name \notin DOMAIN registry
              => last[1].outcome = RaisesError("ValueError")
         /\ (last[1].name \in get_available_agents(registry)
               /\ last[1].outcome.raises = "none")
              => last[1].outcome.instance =
                   <<[cls |-> registry[last[1].name].name,
                      use_mcp |-> last[1].options.use_mcp,
                      model |-> last[1].options.model]>>

(***************************************************************************)
(* Token accounting: TokenUsage.calculate_cost and the statistics of the   *)
(* aggregate (_create_final_results_summary)                               *)
(*                                                                         *)
(* Token counts are held in millions of tokens and prices in cents per     *)
(* million tokens, so that a cost is a whole number of cents.  A model     *)
(* name is the sequence of its pieces; a key of the price table is         *)
(* contained in a name exactly when its pieces stand next to each other in *)
(* the name, as its characters do in the source.                           *)
(***************************************************************************)

\* the most seconds one solve lasts
MaxDuration == 2

Price(key, inp, outp) == [key |-> key, input |-> inp, output |-> outp]

\* TOKEN_PRICING, in the order of the dict
TOKEN_PRICING ==
    << Price(<<"claude-sonnet-4-20250514">>, 300, 1500),
       Price(<<"claude-3-5-sonnet">>, 300, 1500),
       Price(<<"claude-3-opus">>, 1500, 7500),
       Price(<<"claude-3-haiku">>, 25, 125),
       Price(<<"gpt-4", "o">>, 250, 1000),
       Price(<<"gpt-4", "o", "-mini">>, 15, 60),
       Price(<<"gpt-4">>, 3000, 6000),
       Price(<<"gpt-4", "-turbo">>, 1000, 3000),
       Price(<<"o1">>, 1500, 6000),
       Price(<<"o1", "-mini">>, 300, 1200),
       Price(<<"codex">>, 250, 1000),
       Price(<<"gemini">>, 0, 0),
       Price(<<"default">>, 300, 1500) >>

\* TOKEN_PRICING.get(key): the entry of the key
pricing_of(key) ==
    TOKEN_PRICING[CHOOSE i \in 1..Len(TOKEN_PRICING) : TOKEN_PRICING[i].key = key]

\* str.lower on the pieces of a model name
LowerPiece(w) ==
    CASE w = "GPT-4" -> "gpt-4"
      [] w = "O1" -> "o1"
      [] w = "Claude-3-Opus" -> "claude-3-opus"
      [] w = "Gemini" -> "gemini"
      [] OTHER -> w
model_lower(model) == [i \in 1..Len(model) |-> LowerPiece(model[i])]

\* the model names examined: every key, names in another case, names that
\* carry a prefix or a suffix, and names that hold no key
ModelNames ==
    {TOKEN_PRICING[i].key : i \in 1..Len(TOKEN_PRICING)}
      \cup { <<"GPT-4", "o">>, <<"O1", "-mini">>, <<"Claude-3-Opus">>,
             <<"Gemini", "-2.5-pro">>, <<"openai/", "gpt-4", "o", "-mini">>,
             <<"claude-3-5-sonnet", "-20241022">>, <<"llama-3">>, <<"sonnet">> }

TokenUsage(input_tokens, output_tokens, cache_read_tokens) ==
    [input_tokens |-> input_tokens, output_tokens |-> output_tokens,
     total_tokens |-> input_tokens + output_tokens,
     cache_read_tokens |-> cache_read_tokens]

input_cost(self, pricing) == self.input_tokens * pricing.input
output_cost(self, pricing) == self.output_tokens * pricing.output

\* TokenUsage.calculate_cost: the first key of the table, in the order of
\* the dict, that the lowered name contains decides the prices
calculate_cost(self, model) ==
    LET found == {i \in 1..Len(TOKEN_PRICING) :
                      Contains(model_lower(model), TOKEN_PRICING[i].key)}
        pricing == IF found = {} THEN pricing_of(<<"default">>)
                   ELSE TOKEN_PRICING[CHOOSE i \in found : \A j \in found : i <= j]
    IN  input_cost(self, pricing) + output_cost(self, pricing)

\* r.get(key, default)
get(r, key, default) == IF key \in DOMAIN r THEN r[key] ELSE default

\* the records of an aggregate, by what they carry: a skipped record and the
\* record of a task that failed before the solver ran carry no token, cost
\* or duration key; the record of a cycle carries all of them, the tokens
\* and the cost being 0 when the solver reported no token usage
SkippedStat == [task |-> "skipped", skipped |-> TRUE]
ErrorStat == [task |-> "error", error |-> "before the solver ran"]
CycleStat(total_tokens, cost_usd, solver_duration) ==
    [task |-> "ran", total_tokens |-> total_tokens, cost_usd |-> cost_usd,
     solver_duration |-> solver_duration]
StatRecords ==
    {SkippedStat, ErrorStat}
      \cup { r \in { CycleStat(t, c, d) : t \in 0..MaxMTokens, c \in 0..MaxMTokens,
                                           d \in 1..MaxDuration } :
                 r.total_tokens > 0 \/ r.cost_usd = 0 }
Tallies == UNION { [1..n -> StatRecords] : n \in 0..MaxRecords }

\* sum(r.get(key, 0) for r in results)
RECURSIVE total(_, _)
total(records, key) ==
    IF records = <<>> THEN 0
    ELSE get(Head(records), key, 0) + total(Tail(records), key)

\* the records with non-zero token data
with_data(records) == SelectSeq(records, LAMBDA r : get(r, "total_tokens", 0) > 0)

\* round(numerator / denominator, places), as a whole number of 10^-places
rounded(numerator, denominator, scale) ==
    (2 * numerator * scale + denominator) \div (2 * denominator)

\* the statistics of _create_final_results_summary: averages in hundredths,
\* the average cost in ten-thousandths
final_results_statistics(records) ==
    LET tasks_with_data == Len(with_data(records))
        avg(quantity, scale) ==
            IF tasks_with_data > 0 THEN rounded(quantity, tasks_with_data, scale) ELSE 0
    IN  [total_tokens |-> total(records, "total_tokens"),
         total_cost_usd |-> total(records, "cost_usd"),
         total_duration_seconds |-> total(records, "solver_duration"),
         avg_tokens_per_task |-> avg(total(records, "total_tokens"), 100),
         avg_cost_per_task_usd |-> avg(total(records, "cost_usd"), 10000),
         avg_duration_per_task_seconds |-> avg(total(records, "solver_duration"), 100)]

InitAccounts ==
    /\ \/ /\ usage \in { <<[self |-> TokenUsage(i, o, c), model |-> m]>> :
                            i \in 0..MaxMTokens, o \in 0..MaxMTokens,
                            c \in 0..1, m \in ModelNames }
          /\ tally = <<>>
       \/ /\ usage = <<>>
          /\ tally \in Tallies
    /\ cost = <<>> /\ summary = <<>>
    /\ ParserIdle /\ SolverIdle /\ FactoryIdle /\ ValidationIdle /\ PipelineIdle
    /\ LlmIdle /\ ExtractIdle /\ CycleIdle /\ RunIdle

\* token_usage.calculate_cost(model)
CalculateCost ==
    /\ usage # <<>> /\ cost = <<>>
    /\ cost' = <<calculate_cost(usage[1].self, usage[1].model)>>
    /\ UNCHANGED <<usage, tally, summary, parserVars, solverVars, factoryVars,
                   validationVars, pipelineVars,
                   llmVars, extractVars, cycleVars, runVars>>

\* _create_final_results_summary(..., records)
CreateFinalResultsSummary ==
    /\ usage = <<>> /\ summary = <<>>
    /\ summary' = <<final_results_statistics(tally)>>
    /\ UNCHANGED <<usage, cost, tally, parserVars, solverVars, factoryVars,
                   validationVars, pipelineVars,
                   llmVars, extractVars, cycleVars, runVars>>

NextAccounts == CalculateCost \/ CreateFinalResultsSummary

SpecAccounts == InitAccounts /\ [][NextAccounts]_vars

\* the average of a quantity over the records with non-zero token data
average_with_data(records, key, scale) ==
    IF with_data(records) = <<>> THEN 0
    ELSE rounded(total(with_data(records), key), Len(with_data(records)), scale)

\* C27: in every aggregate, avg_tokens_per_task, avg_cost_per_task_usd and
\* avg_duration_per_task_seconds each equal the sum of the quantity over the
\* records with total_tokens > 0 divided by the number of such records, and
\* 0 when there are none
PerTaskAverages ==
    summary # <<>>
      => /\ summary[1].avg_tokens_per_task = average_with_data(tally, "total_tokens", 100)
         /\ summary[1].avg_cost_per_task_usd = average_with_data(tally, "cost_usd", 10000)
         /\ summary[1].avg_duration_per_task_seconds
              = average_with_data(tally, "solver_duration", 100)

\* C29: calculate_cost charges, for a model name equal to a key of the
\* price table whatever its case, that key's input and output prices per
\* million tokens, whatever the cache tokens; for a name that contains no
\* key it charges the default entry
CostLookup ==
    cost # <<>>
      => LET self == usage[1].self
             name == model_lower(usage[1].model)
             charge(pricing) == self.input_tokens * pricing.input
                                  + self.output_tokens * pricing.output
         IN  /\ \A i \in 1..Len(TOKEN_PRICING) :
                    name = TOKEN_PRICING[i].key => cost[1] = charge(TOKEN_PRICING[i])
             /\ (\A i \in 1..Len(TOKEN_PRICING) : ~Contains(name, TOKEN_PRICING[i].key))
                    => cost[1] = charge(pricing_of(<<"default">>))

(***************************************************************************)
(* Two-phase validation: validate_task and _validate_in_directory          *)
(***************************************************************************)

\* utils/constants.py
TIMEOUT == 600

\* the two functions that run the validation
Validators == {"validate_task", "_validate_in_directory"}

\* how a run of Godot ends: it exits with status 0, it exits with an error,
\* it outlasts its timeout, or it cannot be run at all
RunEnds == {"exit0", "nonzero", "timeout", "oserror"}

\* the outputs of the test scene examined
TestOutputs == {o \in Outputs : Len(o) <= 1}

\* the command line of a Godot run
Command(editor, use_headless, timeout) ==
    [editor |-> editor, headless |-> use_headless, timeout |-> timeout]

Returns(result) == [raises |-> "none", result |-> <<result>>]
Propagates(e) == [raises |-> e, result |-> <<>>]

\* a faulty warm pass without the inner handler
warm_pass_unguarded(ends) ==
    IF ends = "timeout" THEN "TimeoutExpired"
    ELSE IF ends = "oserror" THEN "Exception" ELSE "none"

\* the warm pass: subprocess.run(cmd, ..., timeout=3) inside its own
\* try/except subprocess.TimeoutExpired; the exit status is not examined.
\* The value is the exception that leaves the inner try, "none" if none does
warm_pass(ends) ==
    IF ends = "oserror" THEN "Exception" ELSE "none"

\* ValidationParser.save_result_to_json raises when the results folder
\* cannot be written
save_result_to_json(save_fails, result) ==
    IF save_fails THEN Propagates("OSError") ELSE Returns(result)

\* the two except clauses of the outer try: validate_task saves the result it
\* makes, _validate_in_directory only returns it
except_clauses(validator, e, save_fails) ==
    LET result == IF e = "TimeoutExpired"
                    THEN ValidationResult(FALSE, <<"Validation timed out">>)
                    ELSE ValidationResult(FALSE, <<"Error running validation">>)
    IN  IF validator = "validate_task" THEN save_result_to_json(save_fails, result)
        ELSE Returns(result)

\* the test-scene run and what follows it inside the outer try
test_scene(validator, ends, stdout, stderr, save_fails) ==
    IF ends = "timeout" THEN except_clauses(validator, "TimeoutExpired", save_fails)
    ELSE IF ends = "oserror" THEN except_clauses(validator, "Exception", save_fails)
    ELSE LET result == parse_output(stdout \o stderr)
         IN  IF save_result_to_json(save_fails, result).raises = "none"
               THEN Returns(result)
             ELSE except_clauses(validator, "Exception", save_fails)

\* the result for a directory without project.godot
not_found(validator, save_fails) ==
    IF validator = "validate_task"
      THEN save_result_to_json(save_fails, ValidationResult(FALSE, <<"Task not found">>))
    ELSE Returns(ValidationResult(FALSE, <<"project.godot not found in validation directory">>))

InitValidate ==
    /\ validation \in
         { <<[validator |-> v, project_file |-> p, requires_display |-> d,
              warm |-> w, test |-> t, stdout |-> o, stderr |-> e, save_fails |-> f]>> :
             v \in Validators, p \in BOOLEAN, d \in BOOLEAN, w \in RunEnds,
             t \in RunEnds, o \in TestOutputs, e \in {<<>>, << <<T_FAIL>> >>},
             f \in BOOLEAN }
    /\ vpc = "start" /\ commands = <<>> /\ verdict = <<>>
    /\ ParserIdle /\ SolverIdle /\ FactoryIdle /\ AccountsIdle /\ PipelineIdle
    /\ LlmIdle /\ ExtractIdle /\ CycleIdle /\ RunIdle

\* project_file.exists()
CheckProject ==
    /\ vpc = "start"
    /\ IF validation[1].project_file
         THEN vpc' = "warm" /\ UNCHANGED verdict
         ELSE /\ vpc' = "returned"
              /\ verdict' = <<not_found(validation[1].validator, validation[1].save_fails)>>
    /\ UNCHANGED <<validation, commands, parserVars, solverVars, factoryVars,
                   accountVars, pipelineVars,
                   llmVars, extractVars, cycleVars, runVars>>

\* the run of the editor that loads the project files
WarmPass ==
    /\ vpc = "warm"
    /\ commands' = Append(commands, Command(TRUE, ~validation[1].requires_display, 3))
    /\ IF warm_pass(validation[1].warm) = "none"
         THEN vpc' = "test" /\ UNCHANGED verdict
         ELSE /\ vpc' = "returned"
              /\ verdict' = <<except_clauses(validation[1].validator,
                                             warm_pass(validation[1].warm),
                                             validation[1].save_fails)>>
    /\ UNCHANGED <<validation, parserVars, solverVars, factoryVars,
                   accountVars, pipelineVars,
                   llmVars, extractVars, cycleVars, runVars>>

\* the run of the test scene, the parse of its output and the save
TestScene ==
    /\ vpc = "test"
    /\ commands' = Append(commands, Command(FALSE, ~validation[1].requires_display, TIMEOUT))
    /\ vpc' = "returned"
    /\ verdict' = <<test_scene(validation[1].validator, validation[1].test,
                               validation[1].stdout, validation[1].stderr,
                               validation[1].save_fails)>>
    /\ UNCHANGED <<validation, parserVars, solverVars, factoryVars,
                   accountVars, pipelineVars,
                   llmVars, extractVars, cycleVars, runVars>>

NextValidate == CheckProject \/ WarmPass \/ TestScene

SpecValidate == InitValidate /\ [][NextValidate]_vars

\* the validation has ended after a warm pass that timed out or exited with
\* an error
EndedAfterFailedWarmPass ==
    /\ vpc = "returned" /\ validation[1].project_file
    /\ validation[1].warm \in {"timeout", "nonzero"}

MaxSources == 2
\* max_workers of the pool
MaxWorkers == 2

VideoIds == {"v1", "v2"}
RepoNames == {"r1", "r2"}

\* an entry of a sources file; a direct repository list holds the
\* repository's name and url only
Source(video_id, repo_name) == [video_id |-> video_id, repo_name |-> repo_name]
SourceLists ==
    UNION { [1..n -> {Source(v, r) : v \in VideoIds, r \in RepoNames}] : n \in 0..MaxSources }

\* the stages, the clone stage with either format of its list
Stages == {"download", "clone --sources", "clone --repos", "analyze"}

\* load_repo_list on a sources file: the first entry of each repo_name, in
\* the order of the file
RECURSIVE unique_repos(_, _)
unique_repos(sources, seen) ==
    IF sources = <<>> THEN <<>>
    ELSE IF Head(sources).repo_name \in seen THEN unique_repos(Tail(sources), seen)
    ELSE <<Head(sources).repo_name>>
           \o unique_repos(Tail(sources), seen \cup {Head(sources).repo_name})

\* load_repo_list: a sources file gives its unique repositories, a direct
\* list is returned as it is
load_repo_list(format, entries) ==
    IF format = "clone --sources" THEN unique_repos(entries, {})
    ELSE [i \in 1..Len(entries) |-> entries[i].repo_name]

\* repos_dir.iterdir(): every directory once
RECURSIVE iterdir(_)
iterdir(names) ==
    IF names = {} THEN <<>>
    ELSE LET d == CHOOSE n \in names : TRUE IN <<d>> \o iterdir(names \ {d})

\* the directories of the work units a stage submits, in the order of submission
work_units(stage, entries) ==
    IF stage = "download"
      THEN [i \in 1..Len(entries) |-> <<"videos", entries[i].video_id>>]
    ELSE IF stage = "analyze"
      THEN LET dirs == iterdir({entries[i].repo_name : i \in 1..Len(entries)})
           IN  [i \in 1..Len(dirs) |-> <<"repos", dirs[i]>>]
    ELSE LET repo_list == load_repo_list(stage, entries)
         IN  [i \in 1..Len(repo_list) |-> <<"repos", repo_list[i]>>]

\* the work units a worker thread is running
Active == {i \in DOMAIN upc : upc[i] \in {"running", "loaded"}}

InitPipeline ==
    /\ job \in { <<[stage |-> st, entries |-> e]>> : st \in Stages, e \in SourceLists }
    /\ ppc = "start" /\ units = <<>> /\ upc = <<>>
    /\ ParserIdle /\ SolverIdle /\ FactoryIdle /\ AccountsIdle /\ ValidationIdle
    /\ LlmIdle /\ ExtractIdle /\ CycleIdle /\ RunIdle

\* the stage loads its list and submits one work unit per entry to the pool
SubmitUnits ==
    /\ ppc = "start"
    /\ units' = work_units(job[1].stage, job[1].entries)
    /\ upc' = [i \in 1..Len(units') |-> "queued"]
    /\ ppc' = "pool"
    /\ UNCHANGED <<job, parserVars, solverVars, factoryVars, accountVars,
                   validationVars, llmVars, extractVars, cycleVars, runVars>>

\* a free worker thread takes the oldest queued work unit
StartUnit(i) ==
    /\ ppc = "pool" /\ upc[i] = "queued"
    /\ \A j \in 1..(i - 1) : upc[j] # "queued"
    /\ Cardinality(Active) < MaxWorkers
    /\ upc' = [upc EXCEPT ![i] = "running"]
    /\ UNCHANGED <<job, ppc, units, parserVars, solverVars, factoryVars, accountVars,
                   validationVars, llmVars, extractVars, cycleVars, runVars>>

\* MetadataManager.update_stage_status reads metadata.json of the unit's directory
LoadMetadata(i) ==
    /\ ppc = "pool" /\ upc[i] = "running"
    /\ upc' = [upc EXCEPT ![i] = "loaded"]
    /\ UNCHANGED <<job, ppc, units, parserVars, solverVars, factoryVars, accountVars,
                   validationVars, llmVars, extractVars, cycleVars, runVars>>

\* ... and writes it back; the work unit returns
SaveMetadata(i) ==
    /\ ppc = "pool" /\ upc[i] = "loaded"
    /\ upc' = [upc EXCEPT ![i] = "done"]
    /\ UNCHANGED <<job, ppc, units, parserVars, solverVars, factoryVars, accountVars,
                   validationVars, llmVars, extractVars, cycleVars, runVars>>

\* the with block of the executor ends when every work unit has returned
Shutdown ==
    /\ ppc = "pool" /\ \A i \in DOMAIN upc : upc[i] = "done"
    /\ ppc' = "done"
    /\ UNCHANGED <<job, units, upc, parserVars, solverVars, factoryVars, accountVars,
                   validationVars, llmVars, extractVars, cycleVars, runVars>>

NextPipeline ==
    \/ SubmitUnits
    \/ \E i \in DOMAIN upc : StartUnit(i)
    \/ \E i \in DOMAIN upc : LoadMetadata(i)
    \/ \E i \in DOMAIN upc : SaveMetadata(i)
    \/ Shutdown

SpecPipeline == InitPipeline /\ [][NextPipeline]_vars

\* C30: in the parallel stages no two work units that run at the same time
\* write to the same directory, and so to the same metadata.json, whatever
\* sources list or repository list the loader accepted
DisjointWorkUnits ==
    \A i \in Active : \A j \in Active : i # j => units[i] # units[j]

(***************************************************************************)
(* LLMClient.call: the retry loop around the backend of the pipeline       *)
(***************************************************************************)

\* the largest processing.max_retries examined
MaxRetries == 3

\* how a backend attempt ends: a response, anthropic.RateLimitError, or
\* another Exception
AttemptEnds == {"response", "RateLimitError", "Exception"}

RECURSIVE Pow2(_)
Pow2(n) == IF n = 0 THEN 1 ELSE 2 * Pow2(n - 1)

\* a faulty wait that does not grow with the attempt
wait_time_flat(attempt, failure) == 2

\* the seconds slept after the failure of an attempt that is not the last:
\* 2 ** attempt after a rate limit, 2 after any other exception
wait_time(attempt, failure) ==
    IF failure = "RateLimitError" THEN Pow2(attempt) ELSE 2

Response(attempt) == [raises |-> "none", attempt |-> attempt]
Reraised(failure, attempt) == [raises |-> failure, attempt |-> attempt]

\* one turn of "for attempt in range(self.max_retries)": the backend call
\* and the except clause that handles its failure.  The value holds what the
\* turn sleeps and how it leaves the function, <<>> when the loop goes on
loop_turn(max_retries, attempt, ends) ==
    IF ends = "response"
      THEN [sleep |-> <<>>, leaves |-> <<Response(attempt)>>]
    ELSE IF attempt < max_retries - 1
      THEN [sleep |-> <<wait_time(attempt, ends)>>, leaves |-> <<>>]
    ELSE [sleep |-> <<>>, leaves |-> <<Reraised(ends, attempt)>>]

InitLlm ==
    /\ llm \in { <<[max_retries |-> n, ends |-> e]>> :
                    n \in 0..MaxRetries, e \in [0..(MaxRetries - 1) -> AttemptEnds] }
    /\ calls = <<>> /\ slept = <<>> /\ reply = <<>>
    /\ ParserIdle /\ SolverIdle /\ FactoryIdle /\ AccountsIdle /\ ValidationIdle
    /\ PipelineIdle /\ ExtractIdle /\ CycleIdle /\ RunIdle

\* the next turn of the loop; attempt is the number of calls made so far
Attempt ==
    /\ reply = <<>> /\ Len(calls) < llm[1].max_retries
    /\ LET attempt == Len(calls)
           turn == loop_turn(llm[1].max_retries, attempt, llm[1].ends[attempt])
       IN  /\ calls' = Append(calls, llm[1].ends[attempt])
           /\ slept' = slept \o turn.sleep
           /\ reply' = turn.leaves
    /\ UNCHANGED <<llm, parserVars, solverVars, factoryVars, accountVars, validationVars,
                   pipelineVars, extractVars, cycleVars, runVars>>

\* the range is used up without a return or a raise: the statement after the loop
MaxRetriesExceeded ==
    /\ reply = <<>> /\ Len(calls) >= llm[1].max_retries
    /\ reply' = <<Reraised("Max retries exceeded", Len(calls))>>
    /\ UNCHANGED <<llm, calls, slept, parserVars, solverVars, factoryVars, accountVars,
                   validationVars, pipelineVars, extractVars, cycleVars, runVars>>

NextLlm == Attempt \/ MaxRetriesExceeded

SpecLlm == InitLlm /\ [][NextLlm]_vars

\* C31: call makes at most max_retries backend attempts; a response ends it
\* at once, so that every attempt before the last one made has failed; each
\* failure that is not the last allowed attempt is followed by a sleep of
\* 2^attempt seconds after a rate limit and of 2 seconds otherwise; when the
\* last allowed attempt fails, call raises that attempt's error
RetryDiscipline ==
    llm # <<>>
      => /\ Len(calls) <= llm[1].max_retries
         /\ \A k \in 1..(Len(calls) - 1) : calls[k] # "response"
         /\ \A k \in 1..Len(calls) :
                (calls[k] = "response") => reply = <<Response(k - 1)>>
         /\ \A k \in 1..Len(calls) :
                (calls[k] # "response" /\ k < llm[1].max_retries)
                    => /\ Len(slept) >= k
                       /\ slept[k] = IF calls[k] = "RateLimitError" THEN Pow2(k - 1) ELSE 2
         /\ Len(slept) <= Len(calls)
         /\ (Len(calls) = llm[1].max_retries /\ Len(calls) > 0
               /\ calls[Len(calls)] # "response")
              => reply = <<Reraised(calls[Len(calls)], Len(calls) - 1)>>

\* two rate limits and a third failure: sleeps of 1 and 2 seconds, then the
\* third attempt's error is raised
RetryDisciplineWitness ==
    /\ llm # <<>> /\ llm[1].max_retries = 3
    /\ calls = <<"RateLimitError", "RateLimitError", "Exception">>
    /\ slept = <<1, 2>>
    /\ reply = <<Reraised("Exception", 2)>>

(***************************************************************************)
(* extract_task_from_commit: the extraction of a task from a commit        *)
(***************************************************************************)

\* the most calls of extract_task_from_commit examined
MaxExtractions == 3

\* the task ids the candidates hash to
TaskIds == {"task_00001", "task_00002"}

\* what a task directory holds
TaskDir(ground_truth, starting_point, task_spec, extraction) ==
    [ground_truth |-> ground_truth, starting_point |-> starting_point,
     task_spec |-> task_spec, extraction |-> extraction]
NoTaskDir == TaskDir(FALSE, FALSE, FALSE, "none")

\* how an extraction that is started goes: a checkout fails, no file of the
\* commit matches the patterns, task_spec.json cannot be written, or all is well
ExtractionEnds ==
    {"checkout fails", "parent checkout fails", "no ground truth files",
     "write fails", "ok"}

\* a call: the path it took ("no repository", "shortcut" or "extracted"),
\* what it returned and the task directory it left
Extraction(task_id, took, result, dir) ==
    [task_id |-> task_id, took |-> took, returned |-> result, dir |-> dir]

\* the except clause: both directories are removed and the stage is marked failed
cleanup_on_failure(task_id) ==
    Extraction(task_id, "extracted", FALSE, TaskDir(FALSE, FALSE, FALSE, "failed"))

\* extract_task_from_commit for a candidate whose task directory is dir
extract_task_from_commit(task_id, dir, repo_exists, ends) ==
    IF ~repo_exists THEN Extraction(task_id, "no repository", FALSE, dir)
    ELSE IF dir.ground_truth /\ dir.starting_point
      THEN Extraction(task_id, "shortcut", TRUE, dir)
    ELSE IF ends \in {"checkout fails", "parent checkout fails", "write fails"}
      THEN cleanup_on_failure(task_id)
    ELSE IF ends = "no ground truth files"
      THEN Extraction(task_id, "extracted", FALSE,
                      TaskDir(TRUE, TRUE, dir.task_spec, dir.extraction))
    ELSE Extraction(task_id, "extracted", TRUE, TaskDir(TRUE, TRUE, TRUE, "completed"))

InitExtract ==
    /\ taskDirs = [t \in TaskIds |-> NoTaskDir] /\ extractions = <<>>
    /\ ParserIdle /\ SolverIdle /\ FactoryIdle /\ AccountsIdle /\ ValidationIdle
    /\ PipelineIdle /\ LlmIdle /\ CycleIdle /\ RunIdle

ExtractTask ==
    /\ taskDirs # <<>> /\ Len(extractions) < MaxExtractions
    /\ \E task_id \in TaskIds, repo_exists \in BOOLEAN, ends \in ExtractionEnds :
         LET call == extract_task_from_commit(task_id, taskDirs[task_id], repo_exists, ends)
         IN  /\ taskDirs' = [taskDirs EXCEPT ![task_id] = call.dir]
             /\ extractions' = Append(extractions, call)
    /\ UNCHANGED <<parserVars, solverVars, factoryVars, accountVars, validationVars,
                   pipelineVars, llmVars, cycleVars, runVars>>

NextExtract == ExtractTask

SpecExtract == InitExtract /\ [][NextExtract]_vars

\* the calls before call k that started an extraction for its task
EarlierExtractions(k) ==
    {j \in 1..(k - 1) : /\ extractions[j].task_id = extractions[k].task_id
                        /\ extractions[j].took = "extracted"}

\* C32: the "already extracted" shortcut is taken only for a task whose
\* latest extraction completed successfully; after an extraction that failed
\* or extracted no ground-truth file the next call for the task extracts again
ShortcutOnlyAfterSuccess ==
    \A k \in 1..Len(extractions) :
        extractions[k].took = "shortcut"
          => /\ EarlierExtractions(k) # {}
             /\ LET j == CHOOSE j \in EarlierExtractions(k) :
                             \A i \in EarlierExtractions(k) : i <= j
                IN  extractions[j].returned

=============================================================================
